---- MODULE Spec2Model ----
(***************************************************************************)
(* The anomalydetection plugin (plugins/anomalydetection/src/plugin.cpp):  *)
(* init / parse_init_config, parse_event, extract and the periodic reset   *)
(* workers, over a bank of count-min sketches.                             *)
(*                                                                         *)
(* Strings are sequences of tokens (<<>> is the empty string, \o is        *)
(* std::string +=).  The host thread table is a fixed table; the only      *)
(* field of it the plugin writes, lastevent_fd, is a variable.             *)
(***************************************************************************)
EXTENDS Integers, Sequences, FiniteSets, TLC

\* ------------------------------------------------------------------ bounds
\* parse_event calls accepted after the bank was last (re)built
MaxEvents == 2
MaxEventsCfg == 1

\* ------------------------------------------------------- program constants
\* reset periods up to this many ms start no worker (plugin.cpp:280)
MinResetMs == 100
\* PPM_AT_FDCWD, the dirfd that means "relative to cwd" (plugin.cpp:1637)
PPM_AT_FDCWD == -100

\* ppm_event_code values the model distinguishes
PPME_SYSCALL_EXECVE_19_X == "execve"
PPME_SYSCALL_OPENAT_2_X == "openat"
PPME_SOCKET_CONNECT_X == "connect"
PPME_SYSCALL_CLOSE_X == "close"

\* plugin.cpp:210-219, restricted to the codes of the model
supported_codes_fd_profile == {PPME_SYSCALL_OPENAT_2_X, PPME_SOCKET_CONNECT_X}
\* plugin.cpp:220-230
supported_codes_any_profile == {PPME_SYSCALL_EXECVE_19_X} \cup supported_codes_fd_profile

\* ------------------------------------------------------------- strings
EmptyStr == << >>

DigitTok == << "0", "1", "2", "3", "4", "5", "6", "7", "8", "9" >>

RECURSIVE ToDigits(_)
ToDigits(n) ==
    IF n < 10 THEN << DigitTok[n + 1] >>
    ELSE ToDigits(n \div 10) \o << DigitTok[(n % 10) + 1] >>

\* std::to_string(int64_t): decimal digits, "-" first when negative
to_string(n) == IF n < 0 THEN << "-" >> \o ToDigits(0 - n) ELSE ToDigits(n)

\* ---------------------------------------------------- host thread table
\* tid -> thread entry.  Thread 3's parent (9) is not in the table; thread
\* 4 has empty comm and exe.
ThreadTable ==
    [t \in {1, 2, 3, 4} |->
        CASE t = 1 -> [comm |-> << "init" >>, exe |-> << "/sbin/init" >>, ptid |-> 0,
                       cwd |-> << "/" >>,
                       fds |-> [f \in {} |-> EmptyStr]]
          [] t = 2 -> [comm |-> << "sh" >>, exe |-> << "/bin/sh" >>, ptid |-> 1,
                       cwd |-> << "/", "tmp" >>,
                       fds |-> [f \in {3, 5} |->
                                  IF f = 3 THEN << "/", "etc", "/", "passwd" >>
                                  ELSE << "10.0.0.1:1", "->", "10.0.0.2:80" >>]]
          [] t = 3 -> [comm |-> << "ls" >>, exe |-> << "/bin/sh" >>, ptid |-> 9,
                       cwd |-> << "/" >>,
                       fds |-> [f \in {} |-> EmptyStr]]
          [] t = 4 -> [comm |-> EmptyStr, exe |-> EmptyStr, ptid |-> 1,
                       cwd |-> EmptyStr,
                       fds |-> [f \in {} |-> EmptyStr]]]

TableTids == DOMAIN ThreadTable

\* m_thread_table.get_entry(tr, tid) throws when the table has no such key
HasEntry(tid) == tid \in TableTids

\* ------------------------------------------------------------- events
\* An event as parse_event and extract see it: its type, its thread id and
\* the raw parameters the code decodes (fd, dirfd, name).
MkEvt(ty, tid, fd) ==
    [type |-> ty, tid |-> tid, fd |-> fd, dirfd |-> PPM_AT_FDCWD, name |-> << "f" >>]

Events ==
    {MkEvt(PPME_SYSCALL_EXECVE_19_X, t, 0) : t \in {0, 2, 3, 4, 7}}
    \cup {MkEvt(PPME_SYSCALL_OPENAT_2_X, 2, f) : f \in {3, 4}}
    \cup {MkEvt(PPME_SYSCALL_OPENAT_2_X, 7, 3), MkEvt(PPME_SOCKET_CONNECT_X, 2, 5),
          MkEvt(PPME_SYSCALL_CLOSE_X, 2, 0), MkEvt(PPME_SYSCALL_OPENAT_2_X, 0, 3)}

\* ------------------------------------------------- profile field model
\* plugin_sinsp_filterchecks_field: { id, argid, argname }
MkField(id) == [id |-> id, argid |-> 0, argname |-> EmptyStr]

\* The selector tokens a profile string of the model may hold.
SelectorTokens ==
    {"%proc.name", "%proc.exe", "%proc.pname", "%fd.num", "%fd.name",
     "%custom.fdname_part1"}

\* plugin_anomalydetection::utils::get_profile_fields, one token
FieldOfToken(tok) ==
    CASE tok = "%proc.name" -> MkField("TYPE_NAME")
      [] tok = "%proc.exe" -> MkField("TYPE_EXE")
      [] tok = "%proc.pname" -> MkField("TYPE_PNAME")
      [] tok = "%fd.num" -> MkField("TYPE_FDNUM")
      [] tok = "%fd.name" -> MkField("TYPE_FDNAME")
      [] tok = "%custom.fdname_part1" -> MkField("TYPE_CUSTOM_FDNAME_PART1")

\* get_profile_fields: the selectors of the profile string, in order;
\* tokens that are no registered selector are dropped.
RECURSIVE get_profile_fields(_)
get_profile_fields(toks) ==
    IF toks = << >> THEN << >>
    ELSE (IF Head(toks) \in SelectorTokens THEN << FieldOfToken(Head(toks)) >> ELSE << >>)
         \o get_profile_fields(Tail(toks))

\* profile["fields"].find("%fd") != npos: the text "%fd" occurs in the
\* profile string ("%custom.fdname_part1" does not contain it).
ContainsPctFd(toks) ==
    \E j \in 1..Len(toks) : toks[j] \in {"%fd.num", "%fd.name"}

\* ------------------------------------------------ fingerprint extractor
\* plugin_anomalydetection::utils::concatenate_paths: a non-absolute name
\* is joined onto the base directory.
concatenate_paths(base, name) ==
    IF name # << >> /\ name[1] = "/" THEN name
    ELSE IF base = << >> THEN name
    ELSE IF base[Len(base)] = "/" THEN base \o name
    ELSE base \o << "/" >> \o name

\* extract_filterchecks_evt_params_fallbacks: the value decoded from the
\* raw event parameters alone.
extract_filterchecks_evt_params_fallbacks(evt, field, cwd) ==
    CASE field.id = "TYPE_FDNUM" ->
            IF evt.type \in {PPME_SYSCALL_OPENAT_2_X, PPME_SOCKET_CONNECT_X}
            THEN to_string(evt.fd) ELSE EmptyStr
      [] field.id = "TYPE_FDNAME" ->
            IF evt.type = PPME_SYSCALL_OPENAT_2_X
            THEN concatenate_paths(cwd, evt.name) ELSE EmptyStr
      [] OTHER -> EmptyStr

\* try { fd_table.get_entry(lastevent_fd); read name } catch {}: the cached
\* name of the thread's last fd, empty when the fd table has no such entry.
CachedFdName(tid, lfd) ==
    IF lfd[tid] \in DOMAIN ThreadTable[tid].fds
    THEN ThreadTable[tid].fds[lfd[tid]] ELSE EmptyStr

\* plugin.cpp:1625-1650: the base directory of an openat whose cached name
\* is empty.  get_entry(dirfd) runs first, inside the try.
OpenatBaseDir(evt) ==
    IF evt.dirfd \in DOMAIN ThreadTable[evt.tid].fds
    THEN (IF evt.dirfd = PPM_AT_FDCWD THEN ThreadTable[evt.tid].cwd
          ELSE ThreadTable[evt.tid].fds[evt.dirfd])
    ELSE EmptyStr

\* tstr.find("->") and the split around it (plugin.cpp:2066-2081)
RECURSIVE FindArrow(_, _)
FindArrow(s, j) ==
    IF j > Len(s) THEN 0 ELSE IF s[j] = "->" THEN j ELSE FindArrow(s, j + 1)

FdnamePart1(s) == IF FindArrow(s, 1) = 0 THEN EmptyStr ELSE SubSeq(s, 1, FindArrow(s, 1) - 1)

\* One case of the switch of extract_filterchecks_concat_profile, thread
\* entry present.  k = "val": tstr is v; k = "clear": the accumulated
\* string is cleared first; k = "throw": an exception leaves the function.
FieldValueNonFd(evt, field, lfd) ==
    CASE field.id = "TYPE_NAME" -> [k |-> "val", v |-> ThreadTable[evt.tid].comm]
      [] field.id = "TYPE_EXE" -> [k |-> "val", v |-> ThreadTable[evt.tid].exe]
      [] field.id = "TYPE_PNAME" ->
            IF HasEntry(ThreadTable[evt.tid].ptid)
            THEN [k |-> "val", v |-> ThreadTable[ThreadTable[evt.tid].ptid].comm]
            ELSE [k |-> "throw", v |-> EmptyStr]
      [] OTHER -> [k |-> "val", v |-> EmptyStr]

\* default: of the fd switches: behavior_profile_concat_str.clear()
FdGateClears(evt, field) == [k |-> "clear", v |-> EmptyStr]

FieldValue(evt, field, lfd) ==
    CASE field.id = "TYPE_FDNUM" ->
            IF evt.type \in supported_codes_fd_profile
            THEN [k |-> "val", v |-> to_string(lfd[evt.tid])]
            ELSE FdGateClears(evt, field)
      [] field.id = "TYPE_FDNAME" ->
            IF evt.type = PPME_SOCKET_CONNECT_X
            THEN [k |-> "val",
                  v |-> IF CachedFdName(evt.tid, lfd) # EmptyStr
                        THEN CachedFdName(evt.tid, lfd)
                        ELSE extract_filterchecks_evt_params_fallbacks(evt, field, EmptyStr)]
            ELSE IF evt.type = PPME_SYSCALL_OPENAT_2_X
            THEN [k |-> "val",
                  v |-> IF CachedFdName(evt.tid, lfd) # EmptyStr
                        THEN CachedFdName(evt.tid, lfd)
                        ELSE extract_filterchecks_evt_params_fallbacks(
                                 evt, field, OpenatBaseDir(evt))]
            ELSE FdGateClears(evt, field)
      [] field.id = "TYPE_CUSTOM_FDNAME_PART1" ->
            IF evt.type = PPME_SYSCALL_OPENAT_2_X
            THEN [k |-> "val", v |-> EmptyStr]
            ELSE IF evt.type = PPME_SOCKET_CONNECT_X
            THEN [k |-> "val",
                  v |-> FdnamePart1(
                            IF CachedFdName(evt.tid, lfd) # EmptyStr
                            THEN CachedFdName(evt.tid, lfd)
                            ELSE extract_filterchecks_evt_params_fallbacks(
                                     evt, field, EmptyStr))]
            ELSE FdGateClears(evt, field)
      [] OTHER -> FieldValueNonFd(evt, field, lfd)

\* The for loop over the fields, thread entry present: after each case,
\* behavior_profile_concat_str += tstr.
RECURSIVE ConcatLoop(_, _, _, _)
ConcatLoop(evt, fields, lfd, out) ==
    IF fields = << >> THEN [thrown |-> FALSE, str |-> out]
    ELSE LET r == FieldValue(evt, Head(fields), lfd)
         IN  IF r.k = "throw" THEN [thrown |-> TRUE, str |-> out]
             ELSE ConcatLoop(evt, Tail(fields), lfd,
                             (IF r.k = "clear" THEN EmptyStr ELSE out) \o r.v)

\* The catch branch of the thread lookup: every field from the raw event.
RECURSIVE FallbackLoop(_, _, _)
FallbackLoop(evt, fields, out) ==
    IF fields = << >> THEN out
    ELSE FallbackLoop(evt, Tail(fields),
                      out \o extract_filterchecks_evt_params_fallbacks(
                                 evt, Head(fields), EmptyStr))

\* extract_filterchecks_concat_profile(evt, tr, fields, out): returns true
\* with the fingerprint in str, or throws.
extract_filterchecks_concat_profile(evt, fields, lfd) ==
    IF ~HasEntry(evt.tid)
    THEN [thrown |-> FALSE, str |-> FallbackLoop(evt, fields, EmptyStr)]
    ELSE ConcatLoop(evt, fields, lfd, EmptyStr)

\* ------------------------------------------------- count-min sketch
\* num::cms<uint64_t>: d rows of w counters.  Counters stay far below
\* 2^64 - 1 within the bounds of the model, so the saturating add is +.
Alphabet ==
    << "init", "sh", "ls", "/sbin/init", "/bin/sh", "/", "tmp", "etc", "passwd", "f",
       "->", "10.0.0.1:1", "10.0.0.2:80", "-", "0", "1", "2", "3", "4", "5", "6",
       "7", "8", "9" >>

TokCode(tok) == CHOOSE j \in 1..Len(Alphabet) : Alphabet[j] = tok

RECURSIVE KeyCode(_, _)
KeyCode(key, j) ==
    IF j > Len(key) THEN 0 ELSE j * TokCode(key[j]) + KeyCode(key, j + 1)

\* h_r(key) mod w, one hash per row r, seeded by the row
Hash(r, key, w) == ((2 * r + 1) * KeyCode(key, 1) + r) % w

\* cms(d, w): all counters zero
NewSketch(d, w) == [d |-> d, w |-> w, T |-> [r \in 1..d |-> [c \in 0..(w - 1) |-> 0]]]

\* e = 2.718..., as 2718 / 1000
\* calculate_d_rows_from_gamma: d = ceil(ln(1/gamma)), gamma = 1/g:
\* the least d with e^d >= g
RECURSIVE CeilLn(_, _, _, _)
CeilLn(g, d, num, den) ==
    IF num >= g * den THEN d ELSE CeilLn(g, d + 1, num * 2718, den * 1000)

calculate_d_rows_from_gamma(g) == CeilLn(g, 0, 1, 1)

\* calculate_w_cols_buckets_from_eps: w = ceil(e/eps), eps = 1/k
calculate_w_cols_buckets_from_eps(k) == (2718 * k + 999) \div 1000

\* cms(gamma, eps)
NewSketchGammaEps(g, k) ==
    NewSketch(calculate_d_rows_from_gamma(g), calculate_w_cols_buckets_from_eps(k))

\* update(key, delta): every row's counter of the key grows by delta
Update(s, key, delta) ==
    [s EXCEPT !.T = [r \in 1..s.d |->
                        [s.T[r] EXCEPT ![Hash(r, key, s.w)] = @ + delta]]]

RECURSIVE MinOver(_, _, _)
MinOver(s, key, r) ==
    IF r = s.d THEN s.T[r][Hash(r, key, s.w)]
    ELSE LET a == s.T[r][Hash(r, key, s.w)]
             b == MinOver(s, key, r + 1)
         IN  IF a < b THEN a ELSE b

\* estimate(key): the least of the key's counters over the rows
Estimate(s, key) == MinOver(s, key, 1)

\* reset(): all counters zero, shape kept
Reset(s) == NewSketch(s.d, s.w)

\* ------------------------------------------------------ configurations
\* The count_min_sketch object of the init config.  gamma_eps entries are
\* <<g, k>> for gamma = 1/g, eps = 1/k; an absent array is << >>.
MkProfile(fields, codes, has_timer, ms) ==
    [fields |-> fields, event_codes |-> codes,
     has_reset_timer_ms |-> has_timer, reset_timer_ms |-> ms]

MkConfig(has_enabled, enabled, has_n, n, ge, rc, profiles) ==
    [has_enabled |-> has_enabled, enabled |-> enabled,
     has_n_sketches |-> has_n, n_sketches |-> n,
     gamma_eps |-> ge, rows_cols |-> rc, behavior_profiles |-> profiles]

P_exe == MkProfile(<< "%proc.exe" >>, {PPME_SYSCALL_EXECVE_19_X}, FALSE, 0)
P_exe_periodic == MkProfile(<< "%proc.exe" >>, {PPME_SYSCALL_EXECVE_19_X}, TRUE, 200)
P_name_short == MkProfile(<< "%proc.name" >>,
                          {PPME_SYSCALL_EXECVE_19_X, PPME_SYSCALL_OPENAT_2_X}, TRUE, 100)
P_pname == MkProfile(<< "%proc.pname" >>, {PPME_SYSCALL_EXECVE_19_X}, FALSE, 0)
P_name_fdname == MkProfile(<< "%proc.name", "%fd.name" >>, {PPME_SYSCALL_OPENAT_2_X}, FALSE, 0)
P_name_fdname_execve ==
    MkProfile(<< "%proc.name", "%fd.name" >>,
              {PPME_SYSCALL_EXECVE_19_X, PPME_SYSCALL_OPENAT_2_X}, FALSE, 0)
P_fdname_name == MkProfile(<< "%fd.name", "%proc.name" >>, {PPME_SYSCALL_OPENAT_2_X}, FALSE, 0)
P_fdnum == MkProfile(<< "%fd.num" >>,
                     {PPME_SYSCALL_OPENAT_2_X, PPME_SOCKET_CONNECT_X}, FALSE, 0)
P_part1_name ==
    MkProfile(<< "%custom.fdname_part1", "%proc.name" >>,
              {PPME_SYSCALL_EXECVE_19_X, PPME_SOCKET_CONNECT_X}, FALSE, 0)
P_close == MkProfile(<< "%proc.name" >>, {PPME_SYSCALL_CLOSE_X}, FALSE, 0)

RowsColsA == << 1, 1 >>
RowsColsB == << 2, 2 >>
GammaEpsG == << 3, 1 >>

\* A well-formed configuration: n_sketches is the number of profiles and
\* rows_cols gives one shape per sketch.
Regular(rc, profiles) == MkConfig(TRUE, TRUE, TRUE, Len(profiles), << >>, rc, profiles)

\* The configurations of the parse / extract / reset runs
CoreConfigs ==
    {Regular(<< RowsColsB >>, << P_exe >>),
     Regular(<< RowsColsA >>, << P_name_short >>),
     Regular(<< RowsColsB >>, << P_part1_name >>),
     Regular(<< RowsColsB >>, << P_name_fdname >>),
     Regular(<< RowsColsB >>, << P_fdname_name >>),
     Regular(<< RowsColsA, RowsColsB >>, << P_pname, P_exe >>),
     Regular(<< RowsColsB, RowsColsA >>, << P_exe_periodic, P_fdnum >>),
     MkConfig(TRUE, FALSE, TRUE, 1, << >>, << RowsColsA >>, << P_exe >>)}

\* Every combination of the shape arrays around one profile
ShapeConfigs ==
    {MkConfig(TRUE, TRUE, TRUE, 2, ge, rc, << P_exe_periodic, P_name_short >>) :
        ge \in {<< >>, << GammaEpsG >>, << GammaEpsG, GammaEpsG >>},
        rc \in {<< >>, << RowsColsA >>, << RowsColsA, RowsColsB >>}}

\* Profile lists of the wrong length, rejected profiles, and configurations
\* that leave out enabled or n_sketches
OtherConfigs ==
    {MkConfig(TRUE, TRUE, TRUE, 2, << >>, << RowsColsA, RowsColsB >>, << P_exe >>),
     MkConfig(TRUE, TRUE, TRUE, 1, << >>, << RowsColsA >>, << P_exe, P_name_short >>),
     MkConfig(FALSE, FALSE, TRUE, 1, << >>, << RowsColsA >>, << P_exe >>),
     MkConfig(TRUE, TRUE, FALSE, 0, << >>, << RowsColsA >>, << P_exe >>),
     Regular(<< RowsColsB >>, << P_name_fdname_execve >>),
     Regular(<< RowsColsB >>, << P_close >>)}

Configs == CoreConfigs \cup ShapeConfigs \cup OtherConfigs

\* ---------------------------------------------------- parse_init_config
\* Faulty variant: the configured period is stored as it is
ResetTimerOf_AsConfigured(profile) ==
    IF profile.has_reset_timer_ms THEN profile.reset_timer_ms ELSE 0

\* interval > 100 keeps the interval, anything else stores 0
ResetTimerOf(profile) ==
    IF profile.has_reset_timer_ms /\ profile.reset_timer_ms > MinResetMs
    THEN profile.reset_timer_ms ELSE 0

\* Faulty variant: the %fd check lets every profile through
FdCheckExits_Never(profile) == FALSE

\* exit(1) of the %fd check: the profile string holds "%fd" and one of its
\* codes is no fd code
FdCheckExits(profile) ==
    ContainsPctFd(profile.fields)
    /\ \E code \in profile.event_codes : code \notin supported_codes_fd_profile

\* exit(1) of the supported-codes check
AnyCheckExits(profile) ==
    \E code \in profile.event_codes : code \notin supported_codes_any_profile

\* The four correlated conditions that end in assert(false)
LengthAsserts(n, ge, rc, fields, codes) ==
    \/ (ge # << >> /\ n # Len(ge))
    \/ (rc # << >> /\ n # Len(rc))
    \/ n # Len(fields)
    \/ n # Len(codes)

\* parse_init_config: the members after the call (old_enabled and old_n are
\* the members before it), whether it called exit(1) and whether it reached
\* an assert(false).
parse_init_config(old_enabled, old_n, cfg) ==
    LET enabled == IF cfg.has_enabled THEN cfg.enabled ELSE old_enabled
        n == IF enabled /\ cfg.has_n_sketches THEN cfg.n_sketches ELSE old_n
        ge == IF enabled THEN cfg.gamma_eps ELSE << >>
        rc == IF enabled THEN cfg.rows_cols ELSE << >>
        profs == IF enabled THEN cfg.behavior_profiles ELSE << >>
        fields == [j \in 1..Len(profs) |-> get_profile_fields(profs[j].fields)]
        codes == [j \in 1..Len(profs) |-> profs[j].event_codes]
        timers == [j \in 1..Len(profs) |-> ResetTimerOf(profs[j])]
    IN  [exits |-> \E j \in 1..Len(profs) : FdCheckExits(profs[j]) \/ AnyCheckExits(profs[j]),
         asserts |-> enabled /\ LengthAsserts(n, ge, rc, fields, codes),
         enabled |-> enabled, n_sketches |-> n, gamma_eps |-> ge, rows_cols |-> rc,
         reset_timers |-> timers, fields |-> fields, codes |-> codes]

\* ---------------------------------------------------- parent-chain walks
\* The selectors of extract_filterchecks_concat_profile that follow ptid:
\* the ancestor selectors X[k], the lineage concatenations and the
\* session / process group leader selectors.
MaxArgid == 3

\* for(uint32_t j = 0; j < 9; j++) of the session leader selectors
SidHops == 9

\* for(uint32_t j = 0; j < 5; j++) of the process group leader selectors
VpgidHops == 5

AncestorIds == {"TYPE_ANAME", "TYPE_AEXE", "TYPE_AEXEPATH", "TYPE_APID", "TYPE_ACMDLINE"}

LineageIds ==
    {"TYPE_CUSTOM_ANAME_LINEAGE_CONCAT", "TYPE_CUSTOM_AEXE_LINEAGE_CONCAT",
     "TYPE_CUSTOM_AEXEPATH_LINEAGE_CONCAT"}

SidIds == {"TYPE_SNAME", "TYPE_SID_EXE", "TYPE_SID_EXEPATH"}

VpgidIds == {"TYPE_VPGID_NAME", "TYPE_VPGID_EXE", "TYPE_VPGID_EXEPATH"}

\* plugin_sinsp_filterchecks_field with its [k] argument
MkWalkField(id, argid) == [id |-> id, argid |-> argid, argname |-> EmptyStr]

\* The threads a walk meets.  0 is the ptid of a thread whose parent is not
\* in the table.
WalkTids == 1..3

PtidValues == 0..3

GroupValues == {1, 2}

\* What the host table holds for thread t besides its ptid, sid and vpgid
WalkAttrs(t) ==
    CASE t = 1 -> [comm |-> << "init" >>, exe |-> << "/sbin/init" >>,
                   exepath |-> << "/usr/sbin/init" >>, pid |-> 1, args |-> << >>]
      [] t = 2 -> [comm |-> << "sh" >>, exe |-> << "sh" >>,
                   exepath |-> << "/bin/sh" >>, pid |-> 5, args |-> << "-c", "ls" >>]
      [] OTHER -> [comm |-> << "ls" >>, exe |-> << "./ls" >>,
                   exepath |-> << "/bin/ls" >>, pid |-> 7, args |-> << "-l" >>]

\* A thread table: for each thread its ptid, sid and vpgid
WalkTables(ptids, sids, vpgids) ==
    {[ptid |-> p, sid |-> s, vpgid |-> v] : p \in ptids, s \in sids, v \in vpgids}

\* m_thread_table.get_entry(tr, t) on table tb throws unless t is a thread
WalkHasEntry(tb, t) == t \in DOMAIN tb.ptid

\* args_table.iterate_entries: tstr += " " when tstr is not empty, then the arg
RECURSIVE AppendArgs(_, _)
AppendArgs(tstr, args) ==
    IF args = << >> THEN tstr
    ELSE AppendArgs((IF tstr # EmptyStr THEN tstr \o << " " >> ELSE tstr) \o << Head(args) >>,
                    Tail(args))

\* The read each selector makes of the entry it settled on
ReadAttr(id, t) ==
    CASE id \in {"TYPE_ANAME", "TYPE_CUSTOM_ANAME_LINEAGE_CONCAT", "TYPE_SNAME",
                 "TYPE_VPGID_NAME"} -> WalkAttrs(t).comm
      [] id \in {"TYPE_AEXE", "TYPE_CUSTOM_AEXE_LINEAGE_CONCAT", "TYPE_SID_EXE",
                 "TYPE_VPGID_EXE"} -> WalkAttrs(t).exe
      [] id \in {"TYPE_AEXEPATH", "TYPE_CUSTOM_AEXEPATH_LINEAGE_CONCAT",
                 "TYPE_SID_EXEPATH", "TYPE_VPGID_EXEPATH"} -> WalkAttrs(t).exepath
      [] id = "TYPE_APID" -> to_string(WalkAttrs(t).pid)
      [] OTHER -> AppendArgs(WalkAttrs(t).comm, WalkAttrs(t).args)

\* The bound of the for loop of a selector
HopCap(field) ==
    IF field.id \in SidIds THEN SidHops
    ELSE IF field.id \in VpgidIds THEN VpgidHops
    ELSE field.argid

\* Faulty variant: a loop without its bound
LoopContinues_Always(j, cap) == TRUE

\* j < field.argid, j < 9, j < 5
LoopContinues(j, cap) == j < cap

\* Faulty variant: the walk goes on through tid 1
StopsAtInit_Never(ptid) == FALSE

\* if(ptid == 1) break;
StopsAtInit(ptid) == ptid = 1

\* The session or process group id the leader selectors compare
GroupOf(tb, id, t) == IF id \in SidIds THEN tb.sid[t] ELSE tb.vpgid[t]

\* The calls a walk specification makes: the table, the thread of the event
\* and the selector.  sid and vpgid vary only for the selector that reads them.
ConstGroup == [t \in WalkTids |-> 1]

WalkCall(tb, tid, field) ==
    [pc |-> "call", table |-> tb, tid |-> tid, field |-> field, j |-> 0, ptid |-> -1,
     tstr |-> EmptyStr, leader |-> tid, lookups |-> 0]

WalkCalls ==
    LET ptids == [WalkTids -> PtidValues]
        groups == [WalkTids -> GroupValues]
    IN  {WalkCall(tb, tid, MkWalkField(id, k)) :
             tb \in WalkTables(ptids, {ConstGroup}, {ConstGroup}), tid \in WalkTids,
             id \in AncestorIds \cup LineageIds, k \in 0..MaxArgid}
        \cup {WalkCall(tb, tid, MkWalkField(id, 0)) :
                  tb \in WalkTables(ptids, groups, {ConstGroup}), tid \in WalkTids,
                  id \in SidIds}
        \cup {WalkCall(tb, tid, MkWalkField(id, 0)) :
                  tb \in WalkTables(ptids, {ConstGroup}, groups), tid \in WalkTids,
                  id \in VpgidIds}

\* No selector is being evaluated
WalkIdle ==
    [pc |-> "idle", table |-> [ptid |-> << >>, sid |-> << >>, vpgid |-> << >>],
     tid |-> 0, field |-> MkWalkField("none", 0), j |-> 0, ptid |-> -1,
     tstr |-> EmptyStr, leader |-> 0, lookups |-> 0]

\* ------------------------------------------------------------ %proc.env
\* TYPE_ENV: the env subtable of the thread is iterated in table order; an
\* entry is the string the host stored, spelt one character per element, or
\* NullEnv when read_value leaves env at nullptr.
MaxEnvEntries == 3

NullEnv == << "(null)" >>

EnvEntries ==
    {<< "K", "=", "a" >>, << "K", "=", " ", "b", " " >>, << "J", "=", "c" >>,
     << "K", "=", " " >>, NullEnv}

\* env_var = std::string(env) when env != nullptr
EnvVar(e) == IF e = NullEnv THEN EmptyStr ELSE e

\* (env_var.length() > (nlen + 1)) && (env_var[nlen] == '=') &&
\* !env_var.compare(0, nlen, argname)
EnvMatches(env_var, argname) ==
    /\ Len(env_var) > Len(argname) + 1
    /\ env_var[Len(argname) + 1] = "="
    /\ SubSeq(env_var, 1, Len(argname)) = argname

\* env_var.find_first_not_of(' ', pos), as a 1-based index; 0 stands for npos
FindFirstNotSpace(s, from) ==
    IF \E i \in from..Len(s) : s[i] # " "
    THEN CHOOSE i \in from..Len(s) : s[i] # " " /\ \A h \in from..(i - 1) : s[h] = " "
    ELSE 0

\* env_var.find_last_not_of(' '), as a 1-based index; 0 stands for npos
FindLastNotSpace(s) ==
    IF \E i \in 1..Len(s) : s[i] # " "
    THEN CHOOSE i \in 1..Len(s) : s[i] # " " /\ \A h \in (i + 1)..Len(s) : s[h] = " "
    ELSE 0

\* env_var.substr(first, last - first + 1) of a matching entry: thrown when
\* first is npos, which substr rejects with std::out_of_range
EnvTrim(env_var, argname) ==
    LET first == FindFirstNotSpace(env_var, Len(argname) + 2)
        last == FindLastNotSpace(env_var)
    IN  IF first = 0 THEN [thrown |-> TRUE, str |-> EmptyStr]
        ELSE [thrown |-> FALSE, str |-> SubSeq(env_var, first, last)]

\* The lambda of the iteration with a name, on entry e: a matching entry
\* assigns tstr; return true, so the iteration goes on
EnvNamedEntry(it, e) ==
    IF EnvMatches(EnvVar(e), it.argname)
    THEN LET r == EnvTrim(EnvVar(e), it.argname)
         IN  IF r.thrown THEN [it EXCEPT !.pc = "thrown"]
             ELSE [it EXCEPT !.tstr = r.str, !.i = @ + 1]
    ELSE [it EXCEPT !.i = @ + 1]

\* The lambda of the iteration without a name: a space when tstr is not
\* empty, then the entry unless it is null
EnvJoinEntry(it, e) ==
    [it EXCEPT !.tstr = (IF @ # EmptyStr THEN @ \o << " " >> ELSE @)
                           \o (IF e = NullEnv THEN EmptyStr ELSE e),
               !.i = @ + 1]

RECURSIVE SeqsUpTo(_, _)
SeqsUpTo(S, n) ==
    IF n = 0 THEN {<< >>}
    ELSE LET shorter == SeqsUpTo(S, n - 1)
         IN  shorter \cup {Append(s, e) : s \in shorter, e \in S}

EnvArgnames == {<< "K" >>, EmptyStr}

EnvCall(env, argname) ==
    [pc |-> "call", env |-> env, argname |-> argname, i |-> 1, tstr |-> EmptyStr]

EnvCalls == {EnvCall(env, a) : env \in SeqsUpTo(EnvEntries, MaxEnvEntries), a \in EnvArgnames}

\* %proc.env is not being evaluated
EnvIdle == [pc |-> "idle", env |-> << >>, argname |-> EmptyStr, i |-> 1, tstr |-> EmptyStr]

\* ---------------------------------------------------- container go-worker
\* workerLoop of plugins/container/go-worker: the select cases are channel
\* names, ctx.Done first.  Case index 0 of the code is position 1 here.
MaxGoEvents == 2

MaxGoCallbacks == 3

ctxDoneIdx == 0

inotifierIdx == 1

CtxDone == "ctx.Done"

InotifierCh == "inotifier"

EngineChans == {"engine1", "engine2"}

ListenerChans == {InotifierCh} \cup EngineChans

\* A channel with nothing to receive, open
OpenChan == [buf |-> 0, closed |-> FALSE]

\* cases = append(cases, reflect.SelectCase{Dir: SelectRecv, Chan: ch})
AppendCase(cases, ch) == Append(cases, ch)

\* The cases built before the loop: ctx.Done, the inotifier channel unless
\* inotifier.Listen() gave nil, then each engine whose Listen did not fail
SetupCases(has_inotifier, engines) ==
    LET c1 == AppendCase(<< >>, CtxDone)
        c2 == IF has_inotifier THEN AppendCase(c1, InotifierCh) ELSE c1
    IN  IF "engine1" \in engines THEN AppendCase(c2, "engine1") ELSE c2

\* reflect.Select can choose a case whose receive would not block: a closed
\* channel (ctx.Done once cancelled) or one holding a value
CaseReady(g, ch) ==
    IF ch = CtxDone THEN g.cancelled
    ELSE g.chans[ch].buf > 0 \/ g.chans[ch].closed

\* workerLoop entered its for loop with the cases cs
GoCall(has_inotifier, engines) ==
    [pc |-> "select", cancelled |-> FALSE, has_inotifier |-> has_inotifier,
     cases |-> SetupCases(has_inotifier, engines),
     chans |-> [ch \in ListenerChans |-> OpenChan],
     sent |-> 0, received |-> 0, cb_calls |-> 0, seen_closed |-> {},
     chosen |-> "none", recv_ok |-> FALSE]

GoCalls == {GoCall(i, e) : i \in BOOLEAN, e \in {{}, {"engine1"}}}

\* No worker loop is running
GoIdle ==
    [pc |-> "idle", cancelled |-> FALSE, has_inotifier |-> FALSE, cases |-> << >>,
     chans |-> [ch \in ListenerChans |-> OpenChan],
     sent |-> 0, received |-> 0, cb_calls |-> 0, seen_closed |-> {}, chosen |-> "none",
     recv_ok |-> FALSE]

\* ---------------------------------------------------------------- state
VARIABLES
    alive,                            \* the process has not exited or aborted
    build,                            \* "ndebug" once an assert(false) was passed over
    host_table,                       \* whether the host's thread table has the fields init binds
    m_count_min_sketch_enabled,
    m_n_sketches,
    m_gamma_eps,
    m_rows_cols,
    m_reset_timers,
    m_behavior_profiles_fields,
    m_behavior_profiles_event_codes,
    m_count_min_sketches,             \* the bank: a sequence of sketches
    workers,                          \* running reset workers: [id, interval_ms]
    m_lasterr,
    lastevent_fd,                     \* the field the plugin adds to the thread table
    true_count,                       \* per sketch: key -> update(key,1) calls since its last reset
    reset_clean,                      \* per sketch: reset by its worker, not updated since
    nparsed,                          \* parse_event calls since the bank was last rebuilt
    nexec_sh,                         \* those that were execve events of a table thread with exe /bin/sh
    last,                             \* the last step of the plugin and its outcome
    walk,                             \* the parent-chain walk of the selector being evaluated
    env_iter,                         \* the iteration of the env subtable for %proc.env
    go_worker                         \* workerLoop of the container go-worker

config_vars ==
    << m_count_min_sketch_enabled, m_n_sketches, m_gamma_eps, m_rows_cols,
       m_reset_timers, m_behavior_profiles_fields, m_behavior_profiles_event_codes >>

env_vars == << build, host_table >>

vars ==
    << alive, build, host_table, m_count_min_sketch_enabled, m_n_sketches, m_gamma_eps,
       m_rows_cols, m_reset_timers, m_behavior_profiles_fields,
       m_behavior_profiles_event_codes, m_count_min_sketches, workers, m_lasterr,
       lastevent_fd, true_count, reset_clean, nparsed, nexec_sh, last, walk,
       env_iter, go_worker >>

NoEvt == MkEvt("none", 0, 0)
NoConfig == MkConfig(FALSE, FALSE, FALSE, 0, << >>, << >>, << >>)

\* The record of a step: the request, what the entry point returned
\* ("true", "false", "exception" when an exception left the entry point,
\* "exit" when the process ended inside it) and the value it set.
MkLast(op, evt, field, index, cfg, ret, has_value, value, str) ==
    [op |-> op, evt |-> evt, field |-> field, index |-> index, cfg |-> cfg, ret |-> ret,
     has_value |-> has_value, value |-> value, str |-> str]

EmptyBag == [k \in {} |-> 0]
BagCount(b, k) == IF k \in DOMAIN b THEN b[k] ELSE 0
BagAdd(b, k) == [x \in (DOMAIN b) \cup {k} |-> BagCount(b, x) + (IF x = k THEN 1 ELSE 0)]

Init ==
    /\ alive = TRUE
    /\ build = "unknown"
    /\ host_table = "unknown"
    /\ m_count_min_sketch_enabled = FALSE
    /\ m_n_sketches = 0
    /\ m_gamma_eps = << >>
    /\ m_rows_cols = << >>
    /\ m_reset_timers = << >>
    /\ m_behavior_profiles_fields = << >>
    /\ m_behavior_profiles_event_codes = << >>
    /\ m_count_min_sketches = << >>
    /\ workers = {}
    /\ m_lasterr = ""
    /\ lastevent_fd = [t \in TableTids |-> 0]
    /\ true_count = << >>
    /\ reset_clean = << >>
    /\ nparsed = 0
    /\ nexec_sh = 0
    /\ last = MkLast("none", NoEvt, "none", 0, NoConfig, "none", FALSE, 0, EmptyStr)
    /\ walk = WalkIdle
    /\ env_iter = EnvIdle
    /\ go_worker = GoIdle

\* ----------------------------------------------------------------- init
\* The shape branch of init: which array builds the bank
UsesRowsCols(n, ge, rc) == Len(rc) = n
UsesGammaEps(n, ge, rc) == ~UsesRowsCols(n, ge, rc) /\ Len(ge) = n /\ rc = << >>

\* Faulty variant: gamma_eps builds the bank whenever it has n entries
BuildBank_GammaFirst(n, ge, rc) ==
    IF Len(ge) = n
    THEN [i \in 1..n |-> NewSketchGammaEps(ge[i][1], ge[i][2])]
    ELSE [i \in 1..n |-> NewSketch(rc[i][1], rc[i][2])]

\* The bank init builds, for the members parse_init_config left
BuildBank(n, ge, rc) ==
    IF UsesRowsCols(n, ge, rc)
    THEN [i \in 1..n |-> NewSketch(rc[i][1], rc[i][2])]
    ELSE [i \in 1..n |-> NewSketchGammaEps(ge[i][1], ge[i][2])]

\* start_periodic_count_min_sketch_reset_worker: a worker runs only for a
\* period above 100 ms
StartsWorker(interval_ms) == interval_ms > MinResetMs

\* m_reset_timers[i] as the launch loop reads it: an index past the end
\* reads whatever is there (ub)
TimerAt(timers, i, ub) == IF i + 1 <= Len(timers) THEN timers[i + 1] ELSE ub

\* The loop that launches the workers: worker i gets m_reset_timers[i]
LaunchWorkers(n, timers, ub) ==
    {[id |-> i, interval_ms |-> TimerAt(timers, i, ub)] :
        i \in {j \in 0..(n - 1) : StartsWorker(TimerAt(timers, j, ub))}}

\* The build decides what assert(false) does: abort() or nothing.  It is
\* settled the first time an assert is reached.
AssertAborts(p) == p.asserts /\ build = "unknown"
BuildAfter(p) == IF p.asserts THEN "ndebug" ELSE build

\* exit(1) or abort() inside parse_init_config: the process is gone
InitDies(cfg) ==
    \E p \in {parse_init_config(m_count_min_sketch_enabled, m_n_sketches, cfg)} :
        /\ p.exits \/ AssertAborts(p)
        /\ alive' = FALSE
        /\ last' = MkLast("init", NoEvt, "none", 0, cfg, "exit", FALSE, 0, EmptyStr)
        /\ UNCHANGED << env_vars, config_vars, m_count_min_sketches, workers, m_lasterr,
                        true_count, reset_clean, nparsed, nexec_sh >>

\* The thread table lacks a field: the catch block returns false after
\* parse_init_config has already replaced the members
InitTableFails(cfg) ==
    \E p \in {parse_init_config(m_count_min_sketch_enabled, m_n_sketches, cfg)} :
        /\ host_table \in {"unknown", "missing"}
        /\ host_table' = "missing"
        /\ ~p.exits
        /\ build' = BuildAfter(p)
        /\ m_count_min_sketch_enabled' = p.enabled
        /\ m_n_sketches' = p.n_sketches
        /\ m_gamma_eps' = p.gamma_eps
        /\ m_rows_cols' = p.rows_cols
        /\ m_reset_timers' = p.reset_timers
        /\ m_behavior_profiles_fields' = p.fields
        /\ m_behavior_profiles_event_codes' = p.codes
        /\ m_lasterr' = "cannot init libs thread table info fields"
        /\ last' = MkLast("init", NoEvt, "none", 0, cfg, "false", FALSE, 0, EmptyStr)
        /\ UNCHANGED << alive, m_count_min_sketches, workers, true_count, reset_clean,
                        nparsed, nexec_sh >>

\* The rest of init: stop the workers, clear the bank, build the sketches
\* and launch the workers.
InitSketches(cfg, ub) ==
    \E p \in {parse_init_config(m_count_min_sketch_enabled, m_n_sketches, cfg)} :
    LET n == p.n_sketches
        shaped == UsesRowsCols(n, p.gamma_eps, p.rows_cols)
                  \/ UsesGammaEps(n, p.gamma_eps, p.rows_cols)
        built == p.enabled /\ shaped
        oob == built /\ Len(p.reset_timers) < n
    IN  /\ host_table \in {"unknown", "ok"}
        /\ host_table' = "ok"
        /\ ~p.exits
        /\ build' = BuildAfter(p)
        /\ (oob \/ ub = 0)
        /\ m_count_min_sketch_enabled' = p.enabled
        /\ m_n_sketches' = p.n_sketches
        /\ m_gamma_eps' = p.gamma_eps
        /\ m_rows_cols' = p.rows_cols
        /\ m_reset_timers' = p.reset_timers
        /\ m_behavior_profiles_fields' = p.fields
        /\ m_behavior_profiles_event_codes' = p.codes
        /\ m_count_min_sketches' =
              IF built THEN BuildBank(n, p.gamma_eps, p.rows_cols) ELSE << >>
        /\ true_count' = IF built THEN [i \in 1..n |-> EmptyBag] ELSE << >>
        /\ reset_clean' = IF built THEN [i \in 1..n |-> FALSE] ELSE << >>
        /\ alive' = ~(oob /\ ub < 0)
        /\ workers' = IF built /\ ~(oob /\ ub < 0)
                      THEN LaunchWorkers(n, p.reset_timers, ub) ELSE {}
        /\ last' = MkLast("init", NoEvt, "none", 0, cfg,
                          IF oob /\ ub < 0 THEN "exit"
                          ELSE IF p.enabled /\ ~shaped THEN "false" ELSE "true",
                          FALSE, 0, EmptyStr)
        /\ nparsed' = 0
        /\ nexec_sh' = 0
        /\ UNCHANGED m_lasterr

\* init(in) with in.get_config() = cfg, a configuration of pool
PluginInit(pool) ==
    /\ alive
    /\ UNCHANGED << lastevent_fd, walk, env_iter, go_worker >>
    /\ \E cfg \in pool :
          \/ InitDies(cfg)
          \/ InitTableFails(cfg)
          \/ \E ub \in {-1, 0, 200} : InitSketches(cfg, ub)

\* ---------------------------------------------------------- parse_event
\* The switch that records the fd an event produced.  get_entry on a
\* thread that is not in the table throws out of parse_event.
ProducesFd(evt) == evt.type \in {PPME_SYSCALL_OPENAT_2_X, PPME_SOCKET_CONNECT_X}

\* Faulty variant: the slot next to the fd is the one recorded
WriteLasteventFd_WrongSlot(lfd, evt) ==
    IF ProducesFd(evt) /\ HasEntry(evt.tid) THEN [lfd EXCEPT ![evt.tid] = evt.dirfd] ELSE lfd

\* Faulty variant: the fd an event produced is never recorded
WriteLasteventFd_Never(lfd, evt) == lfd

\* Faulty variant: the fd slot of the event is recorded whatever its type
WriteLasteventFd_EveryType(lfd, evt) ==
    IF HasEntry(evt.tid) THEN [lfd EXCEPT ![evt.tid] = evt.fd] ELSE lfd

\* m_lastevent_fd_field.write_value(tw, thread_entry, fd)
WriteLasteventFd(lfd, evt) ==
    IF ProducesFd(evt) /\ HasEntry(evt.tid) THEN [lfd EXCEPT ![evt.tid] = evt.fd] ELSE lfd

\* set.find(evt.get_type()) != set.end()
ProfileApplies(evt, codes) == evt.type \in codes

\* Faulty variant: the update lands in the first sketch whatever the index
UpdateSketchAt_FirstSketch(bank, i, fp) == [bank EXCEPT ![1] = Update(@, fp, 1)]

\* m_count_min_sketches.lock()->at(i).get()->update(fp, 1)
UpdateSketchAt(bank, i, fp) == [bank EXCEPT ![i] = Update(@, fp, 1)]

\* The loop over m_behavior_profiles_event_codes, from profile i (1-based)
\* on, with the bank and the bookkeeping of the updates made so far.
RECURSIVE ParseLoop(_, _, _, _)
ParseLoop(evt, i, lfd, st) ==
    IF i > Len(m_behavior_profiles_event_codes) THEN [st EXCEPT !.ret = "true"]
    ELSE IF ~ProfileApplies(evt, m_behavior_profiles_event_codes[i])
    THEN ParseLoop(evt, i + 1, lfd, st)
    ELSE IF evt.tid <= 0 THEN [st EXCEPT !.ret = "false"]
    ELSE IF ~(i - 1 < m_n_sketches) THEN ParseLoop(evt, i + 1, lfd, st)
    ELSE LET r == extract_filterchecks_concat_profile(
                      evt, m_behavior_profiles_fields[i], lfd)
         IN  IF r.thrown THEN [st EXCEPT !.ret = "false"]
             ELSE IF r.str = EmptyStr THEN ParseLoop(evt, i + 1, lfd, st)
             ELSE IF i > Len(st.bank) THEN [st EXCEPT !.ret = "exception"]
             ELSE ParseLoop(evt, i + 1, lfd,
                            [st EXCEPT !.bank = UpdateSketchAt(@, i, r.str),
                                       !.tc[i] = BagAdd(@, r.str),
                                       !.clean[i] = FALSE])

IsExecSh(evt) ==
    /\ evt.type = PPME_SYSCALL_EXECVE_19_X
    /\ HasEntry(evt.tid)
    /\ ThreadTable[evt.tid].exe = << "/bin/sh" >>

\* parse_event(in) for one event; cap bounds the events of a run.  The host
\* delivers events to a plugin whose init has bound the thread table.
ParseEvent(evt, cap) ==
    /\ alive
    /\ host_table = "ok"
    /\ nparsed < cap
    /\ nparsed' = nparsed + 1
    /\ nexec_sh' = nexec_sh + (IF IsExecSh(evt) THEN 1 ELSE 0)
    /\ IF ~m_count_min_sketch_enabled
       THEN /\ last' = MkLast("parse", evt, "none", 0, NoConfig, "true", FALSE, 0, EmptyStr)
            /\ UNCHANGED << lastevent_fd, m_count_min_sketches, true_count, reset_clean >>
       ELSE IF ProducesFd(evt) /\ ~HasEntry(evt.tid)
       THEN /\ last' = MkLast("parse", evt, "none", 0, NoConfig, "exception", FALSE, 0,
                              EmptyStr)
            /\ UNCHANGED << lastevent_fd, m_count_min_sketches, true_count, reset_clean >>
       ELSE \E lfd \in {WriteLasteventFd(lastevent_fd, evt)} :
            \E res \in {ParseLoop(evt, 1, lfd,
                                  [ret |-> "true", bank |-> m_count_min_sketches,
                                   tc |-> true_count, clean |-> reset_clean])} :
                /\ lastevent_fd' = lfd
                /\ m_count_min_sketches' = res.bank
                /\ true_count' = res.tc
                /\ reset_clean' = res.clean
                /\ last' = MkLast("parse", evt, "none", 0, NoConfig, res.ret, FALSE, 0,
                                  EmptyStr)
    /\ UNCHANGED << walk, env_iter, go_worker,
                    alive, env_vars, config_vars, workers, m_lasterr >>

\* -------------------------------------------------------------- extract
ANOMALYDETECTION_COUNT_MIN_SKETCH_COUNT == "anomaly.count_min_sketch"
ANOMALYDETECTION_COUNT_MIN_SKETCH_BEHAVIOR_PROFILE_CONCAT_STR ==
    "anomaly.count_min_sketch.profile"
ANOMALYDETECTION_FALCO_DURATION_NS == "anomaly.falco.duration_ns"

SketchFields ==
    {ANOMALYDETECTION_COUNT_MIN_SKETCH_COUNT,
     ANOMALYDETECTION_COUNT_MIN_SKETCH_BEHAVIOR_PROFILE_CONCAT_STR}

ExtractFields == SketchFields \cup {ANOMALYDETECTION_FALCO_DURATION_NS, "unknown"}

\* The events and indices extract is asked about
ExtractEvents ==
    {MkEvt(PPME_SYSCALL_EXECVE_19_X, 2, 0), MkEvt(PPME_SYSCALL_EXECVE_19_X, 3, 0),
     MkEvt(PPME_SYSCALL_EXECVE_19_X, 4, 0), MkEvt(PPME_SYSCALL_OPENAT_2_X, 2, 3)}

ExtractIndexes == 0..2

\* The requests of the model: the indexed fields on every index and event,
\* the other fields once
ExtractRequests ==
    {[field |-> f, index |-> i, evt |-> e] :
        f \in SketchFields, i \in ExtractIndexes, e \in ExtractEvents}
    \cup {[field |-> f, index |-> 0, evt |-> MkEvt(PPME_SYSCALL_EXECVE_19_X, 2, 0)] :
             f \in ExtractFields \ SketchFields}

\* Faulty variant: the index is not checked against m_n_sketches
ExtractError_NoBoundsCheck(index) ==
    IF ~m_count_min_sketch_enabled
    THEN "count_min_sketch disabled, but anomaly.count_min_sketch field referenced"
    ELSE ""

\* The two guards that fail an indexed request, and the message of each
ExtractError(index) ==
    IF ~m_count_min_sketch_enabled
    THEN "count_min_sketch disabled, but anomaly.count_min_sketch field referenced"
    ELSE IF index >= m_n_sketches THEN "sketch index out of bounds"
    ELSE ""

\* Faulty variant: the estimate is not read from the sketch
EstimateSketchAt_Zero(bank, index, fp) == 0

\* m_count_min_sketches.lock()->at(index).get()->estimate(fp)
EstimateSketchAt(bank, index, fp) == Estimate(bank[index + 1], fp)

\* m_behavior_profiles_fields[index] as extract reads it: an index past the
\* end of the vector reads whatever is there (here: no fields)
FieldsAt(index) ==
    IF index + 1 <= Len(m_behavior_profiles_fields)
    THEN m_behavior_profiles_fields[index + 1] ELSE << >>

FieldsOutOfRange(field, index) ==
    /\ field \in SketchFields
    /\ ExtractError(index) = ""
    /\ index + 1 > Len(m_behavior_profiles_fields)

\* extract(in) for one request: what it returns, the value it sets, the
\* fingerprint it computed and the last-error string afterwards.
ExtractOutcome(field, index, evt) ==
    IF field = ANOMALYDETECTION_FALCO_DURATION_NS
    THEN [ret |-> "true", has_value |-> TRUE, value |-> 0, str |-> EmptyStr,
          err |-> m_lasterr]
    ELSE IF field \notin SketchFields
    THEN [ret |-> "false", has_value |-> FALSE, value |-> 0, str |-> EmptyStr,
          err |-> "unknown extraction request"]
    ELSE IF ExtractError(index) # ""
    THEN [ret |-> "false", has_value |-> FALSE, value |-> 0, str |-> EmptyStr,
          err |-> ExtractError(index)]
    ELSE LET r == extract_filterchecks_concat_profile(evt, FieldsAt(index), lastevent_fd)
         IN  IF r.thrown
             THEN [ret |-> "exception", has_value |-> FALSE, value |-> 0,
                   str |-> EmptyStr, err |-> m_lasterr]
             ELSE IF field = ANOMALYDETECTION_COUNT_MIN_SKETCH_BEHAVIOR_PROFILE_CONCAT_STR
             THEN [ret |-> "true", has_value |-> TRUE, value |-> 0, str |-> r.str,
                   err |-> m_lasterr]
             ELSE IF index + 1 > Len(m_count_min_sketches)
             THEN [ret |-> "exception", has_value |-> FALSE, value |-> 0,
                   str |-> r.str, err |-> m_lasterr]
             ELSE [ret |-> "true", has_value |-> TRUE,
                   value |-> EstimateSketchAt(m_count_min_sketches, index, r.str),
                   str |-> r.str, err |-> m_lasterr]

\* What the read past the end of m_behavior_profiles_fields can do: end
\* the process, or go on with what it read
OutOfRangeOutcomes(field, index) ==
    IF FieldsOutOfRange(field, index) THEN {"crash", "garbage"} ELSE {"none"}

\* Faulty variant: extract records the event's fd on its thread
Extract_WritesLasteventFd(field, index, evt) ==
    /\ alive
    /\ host_table = "ok"
    /\ \E o \in {ExtractOutcome(field, index, evt)} :
           /\ m_lasterr' = o.err
           /\ last' = MkLast("extract", evt, field, index, NoConfig, o.ret, o.has_value,
                             o.value, o.str)
    /\ lastevent_fd' = IF HasEntry(evt.tid) /\ evt.fd # 0
                       THEN [lastevent_fd EXCEPT ![evt.tid] = evt.fd + 1]
                       ELSE lastevent_fd
    /\ UNCHANGED << walk, env_iter, go_worker,
                    alive, env_vars, config_vars, m_count_min_sketches, workers,
                    true_count, reset_clean, nparsed, nexec_sh >>

Extract(field, index, evt) ==
    /\ alive
    /\ host_table = "ok"
    /\ \E ub \in OutOfRangeOutcomes(field, index) :
       \E o \in {ExtractOutcome(field, index, evt)} :
           /\ alive' = (ub # "crash")
           /\ m_lasterr' = IF ub = "crash" THEN m_lasterr ELSE o.err
           /\ last' = IF ub = "crash"
                      THEN MkLast("extract", evt, field, index, NoConfig, "exit", FALSE, 0,
                                  EmptyStr)
                      ELSE MkLast("extract", evt, field, index, NoConfig, o.ret,
                                  o.has_value, o.value, o.str)
    /\ UNCHANGED << walk, env_iter, go_worker,
                    env_vars, config_vars, m_count_min_sketches, workers,
                    lastevent_fd, true_count, reset_clean, nparsed, nexec_sh >>

\* --------------------------------------------------------- reset worker
\* One turn of periodic_count_min_sketch_reset_worker after its sleep: the
\* sketch of its id, when the bank has one, is reset under the bank's lock.
ResetSketchAt(bank, id) == [bank EXCEPT ![id + 1] = Reset(@)]

ResetWorker(w) ==
    /\ alive
    /\ w \in workers
    /\ w.id + 1 <= Len(m_count_min_sketches)
    /\ m_count_min_sketches' = ResetSketchAt(m_count_min_sketches, w.id)
    /\ true_count' = [true_count EXCEPT ![w.id + 1] = EmptyBag]
    /\ reset_clean' = [reset_clean EXCEPT ![w.id + 1] = TRUE]
    /\ last' = MkLast("reset", NoEvt, "none", w.id, NoConfig, "none", FALSE, 0, EmptyStr)
    /\ UNCHANGED << walk, env_iter, go_worker,
                    alive, env_vars, config_vars, workers, m_lasterr, lastevent_fd,
                    nparsed, nexec_sh >>

\* ---------------------------------------------------------------- spec
\* Events, extract requests and reset turns under the core configurations
Next ==
    \/ PluginInit(CoreConfigs)
    \/ \E evt \in Events : ParseEvent(evt, MaxEvents)
    \/ \E req \in ExtractRequests : Extract(req.field, req.index, req.evt)
    \/ \E w \in workers : ResetWorker(w)

Spec == Init /\ [][Next]_vars

\* Every configuration, each followed by at most MaxEventsCfg events
CfgEvents == {MkEvt(PPME_SYSCALL_EXECVE_19_X, 2, 0), MkEvt(PPME_SYSCALL_OPENAT_2_X, 2, 3)}

CfgRequests ==
    {[field |-> ANOMALYDETECTION_COUNT_MIN_SKETCH_COUNT, index |-> i,
      evt |-> MkEvt(PPME_SYSCALL_EXECVE_19_X, 2, 0)] : i \in 0..1}

NextCfg ==
    \/ PluginInit(Configs)
    \/ \E evt \in CfgEvents : ParseEvent(evt, MaxEventsCfg)
    \/ \E req \in CfgRequests : Extract(req.field, req.index, req.evt)
    \/ \E w \in workers : ResetWorker(w)

SpecCfg == Init /\ [][NextCfg]_vars

\* ------------------------------------------------------------ claims
\* The step just taken was a parse_event call
ParseStep == nparsed' = nparsed + 1

\* The step just taken was an extract call of an indexed field
ExtractStep == last'.op = "extract" /\ last'.field \in SketchFields

\* The step just taken was a turn of reset worker id
ResetStep(id) == last'.op = "reset" /\ last'.index = id /\ last' # last

FdFieldIds == {"TYPE_FDNUM", "TYPE_FDNAME", "TYPE_CUSTOM_FDNAME_PART1"}
HasFdField(fields) == \E j \in 1..Len(fields) : fields[j].id \in FdFieldIds

\* The fingerprints the runs can produce, and a few they cannot
ProbeKeys ==
    {EmptyStr, << "sh" >>, << "ls" >>, << "/bin/sh" >>, << "init" >>, << "3" >>, << "4" >>,
     << "5" >>, << "10.0.0.1:1" >>, << "sh", "/", "etc", "/", "passwd" >>}

\* C1: for every sketch i and every fingerprint k, estimate(k) on sketch i
\* is at least the number of update(k,1) calls applied to sketch i since its
\* last reset, in the bank and in the value extract hands out.
C1_EstimateAtLeastTrueCount ==
    /\ Len(true_count) = Len(m_count_min_sketches)
    /\ \A i \in 1..Len(m_count_min_sketches) :
          \A k \in DOMAIN true_count[i] \cup ProbeKeys :
              Estimate(m_count_min_sketches[i], k) >= BagCount(true_count[i], k)
    /\ (/\ last.op = "extract"
        /\ last.field = ANOMALYDETECTION_COUNT_MIN_SKETCH_COUNT
        /\ last.ret = "true")
       => /\ last.has_value
          /\ last.value >= BagCount(true_count[last.index + 1], last.str)

\* An estimate handed out after two updates of its key
C1_Witness ==
    /\ last.op = "extract"
    /\ last.field = ANOMALYDETECTION_COUNT_MIN_SKETCH_COUNT
    /\ last.ret = "true"
    /\ last.str # EmptyStr
    /\ BagCount(true_count[last.index + 1], last.str) = 2
    /\ last.value >= 2

\* A sketch reset by its worker and not updated since holds only zeros
C2_CleanSketchIsZero ==
    \A i \in 1..Len(m_count_min_sketches) :
        reset_clean[i] =>
            /\ \A k \in ProbeKeys : Estimate(m_count_min_sketches[i], k) = 0
            /\ \A r \in 1..m_count_min_sketches[i].d :
                  \A c \in 0..(m_count_min_sketches[i].w - 1) :
                      m_count_min_sketches[i].T[r][c] = 0

\* A turn of worker id changes no sketch but sketch id
C2_ResetFrame ==
    \A id \in 0..2 :
        ResetStep(id) =>
            /\ Len(m_count_min_sketches') = Len(m_count_min_sketches)
            /\ \A j \in 1..Len(m_count_min_sketches) :
                  j # id + 1 => m_count_min_sketches'[j] = m_count_min_sketches[j]

\* C2: from the completion of a sketch's reset until the next update to it,
\* estimate(k) on it is 0 for every key k; the reset of sketch i changes no
\* other sketch.
C2_ResetZeroesOnlyItsSketch == []C2_CleanSketchIsZero /\ [][C2_ResetFrame]_vars

\* /bin/sh was counted, its sketch was reset, and the estimate extracted
\* before any further update is 0, while the other sketch keeps its counts
C2_Witness ==
    /\ last.op = "extract"
    /\ last.field = ANOMALYDETECTION_COUNT_MIN_SKETCH_COUNT
    /\ last.ret = "true"
    /\ last.str = << "/bin/sh" >>
    /\ last.value = 0
    /\ reset_clean[last.index + 1]
    /\ nexec_sh >= 1
    /\ \E j \in 1..Len(true_count) : true_count[j] # EmptyBag

\* The fingerprint of profile i (1-based) for evt, as parse_event computes
\* it once lastevent_fd holds lfd
FingerprintOf(evt, i, lfd) ==
    extract_filterchecks_concat_profile(evt, m_behavior_profiles_fields[i], lfd)

\* C3: for a sketch with no reset period, profile %proc.exe and event codes
\* containing execve: after parse_event has processed n execve events of
\* threads in the table, all with exe /bin/sh, and no other event, the
\* extracted anomaly.count_min_sketch value of /bin/sh is exactly n.
C3_ExeCountIsExact ==
    (/\ last.op = "extract"
     /\ last.field = ANOMALYDETECTION_COUNT_MIN_SKETCH_COUNT
     /\ last.ret = "true"
     /\ last.str = << "/bin/sh" >>
     /\ last.index + 1 <= Len(m_behavior_profiles_fields)
     /\ m_behavior_profiles_fields[last.index + 1] = << MkField("TYPE_EXE") >>
     /\ PPME_SYSCALL_EXECVE_19_X \in m_behavior_profiles_event_codes[last.index + 1]
     /\ ~\E w \in workers : w.id = last.index
     /\ nparsed = nexec_sh)
    => last.value = nexec_sh

\* What a parse_event step does to each sketch of the bank
C4_ParseUpdatesEveryMatchingSketch ==
    (ParseStep /\ m_count_min_sketch_enabled) =>
        \A i \in 1..Len(m_count_min_sketches) :
            i <= Len(m_behavior_profiles_fields) =>
                LET evt == last'.evt
                    fp == FingerprintOf(evt, i, lastevent_fd')
                    due == /\ ProfileApplies(evt, m_behavior_profiles_event_codes[i])
                           /\ ~fp.thrown
                           /\ fp.str # EmptyStr
                IN  m_count_min_sketches'[i] =
                        IF due THEN Update(m_count_min_sketches[i], fp.str, 1)
                        ELSE m_count_min_sketches[i]

\* C4: for every event handled by parse_event and every sketch i, sketch i
\* receives exactly one update(fp_i, 1) when the event type is in profile
\* i's event codes and fp_i is non-empty, and is left unchanged otherwise.
C4_ParseFrame == [][C4_ParseUpdatesEveryMatchingSketch]_vars

\* A parse_event or extract step on an event that is not fd-producing
C5_FdGateStep ==
    /\ (ParseStep /\ m_count_min_sketch_enabled
        /\ HasEntry(last'.evt.tid)
        /\ last'.evt.type \notin supported_codes_fd_profile) =>
           \A i \in 1..Len(m_count_min_sketches) :
               (i <= Len(m_behavior_profiles_fields)
                /\ HasFdField(m_behavior_profiles_fields[i])) =>
                   m_count_min_sketches'[i] = m_count_min_sketches[i]
    /\ (ExtractStep /\ last'.ret = "true"
        /\ HasEntry(last'.evt.tid)
        /\ last'.evt.type \notin supported_codes_fd_profile
        /\ HasFdField(FieldsAt(last'.index))) =>
           last'.str = EmptyStr

\* C5: a profile with an fd-dependent selector at any position, evaluated
\* on an event of a table thread whose type is not fd-producing, yields the
\* empty fingerprint: parse_event does not update its sketch and extract
\* computes the empty string.
C5_FdGateEmptiesFingerprint == [][C5_FdGateStep]_vars

\* The configuration of the fd-gating scenario: one sketch, profile
\* %proc.name %fd.name, event codes execve and openat
FdGatingConfig == Regular(<< RowsColsB >>, << P_name_fdname_execve >>)

\* The same profile on openat alone is the active configuration
FdGatingOpenatActive ==
    /\ m_count_min_sketch_enabled
    /\ m_n_sketches = 1
    /\ Len(m_count_min_sketches) = 1
    /\ m_behavior_profiles_fields = << << MkField("TYPE_NAME"), MkField("TYPE_FDNAME") >> >>
    /\ m_behavior_profiles_event_codes = << {PPME_SYSCALL_OPENAT_2_X} >>

C6_FdGatingConfigRejected ==
    (last.op = "init" /\ last.cfg = FdGatingConfig) => (last.ret = "exit" /\ ~alive)

\* A parse_event step while the openat-only profile is active
C6_GateStep ==
    (ParseStep /\ FdGatingOpenatActive) =>
        LET evt == last'.evt
            fp == FingerprintOf(evt, 1, lastevent_fd')
        IN  /\ evt.type = PPME_SYSCALL_EXECVE_19_X =>
                   m_count_min_sketches' = m_count_min_sketches
            /\ (evt.type = PPME_SYSCALL_OPENAT_2_X /\ ~fp.thrown /\ fp.str # EmptyStr) =>
                   /\ m_count_min_sketches'[1] = Update(m_count_min_sketches[1], fp.str, 1)
                   /\ m_count_min_sketches' # m_count_min_sketches

LengthMismatch(cfg) ==
    \/ (cfg.gamma_eps # << >> /\ Len(cfg.gamma_eps) # cfg.n_sketches)
    \/ (cfg.rows_cols # << >> /\ Len(cfg.rows_cols) # cfg.n_sketches)
    \/ Len(cfg.behavior_profiles) # cfg.n_sketches

PctFdWithNonFdCode(cfg) ==
    \E j \in 1..Len(cfg.behavior_profiles) :
        /\ ContainsPctFd(cfg.behavior_profiles[j].fields)
        /\ cfg.behavior_profiles[j].event_codes \ supported_codes_fd_profile # {}

InvalidConfig(cfg) ==
    /\ cfg.has_enabled /\ cfg.enabled /\ cfg.has_n_sketches
    /\ (LengthMismatch(cfg) \/ PctFdWithNonFdCode(cfg))

\* C7: for every configuration with an array-length mismatch or a %fd
\* profile paired with a non-fd event code, init returns false to the host
\* and the plugin process keeps running.
C7_InvalidConfigReturnsFalse ==
    (last.op = "init" /\ InvalidConfig(last.cfg)) => (last.ret = "false" /\ alive)

\* Both shape arrays given, each with one entry per sketch
BothShapes(cfg) ==
    /\ cfg.has_enabled /\ cfg.enabled /\ cfg.has_n_sketches
    /\ cfg.n_sketches > 0
    /\ Len(cfg.gamma_eps) = cfg.n_sketches
    /\ Len(cfg.rows_cols) = cfg.n_sketches

\* C8: when the configuration gives both gamma_eps and rows_cols, each of
\* length n_sketches, init builds every sketch i with the shape
\* (rows_cols[i][0], rows_cols[i][1]); the shape gamma_eps[i] stands for is
\* used for no sketch.
C8_RowsColsWin ==
    (last.op = "init" /\ BothShapes(last.cfg) /\ alive /\ host_table = "ok") =>
        /\ last.ret = "true"
        /\ Len(m_count_min_sketches) = last.cfg.n_sketches
        /\ \A i \in 1..Len(m_count_min_sketches) :
              /\ m_count_min_sketches[i] =
                     NewSketch(last.cfg.rows_cols[i][1], last.cfg.rows_cols[i][2])
              /\ m_count_min_sketches[i] #
                     NewSketchGammaEps(last.cfg.gamma_eps[i][1], last.cfg.gamma_eps[i][2])

\* init has returned true for a configuration with both arrays, two sketches
C8_Witness ==
    /\ last.op = "init"
    /\ BothShapes(last.cfg)
    /\ last.ret = "true"
    /\ Len(m_count_min_sketches) = 2
    /\ m_count_min_sketches[2].d = 2 /\ m_count_min_sketches[2].w = 2

\* A failing indexed request: what it returns and what it leaves alone.
\* alive, the configuration, the bank and lastevent_fd are all that the
\* answer to a request depends on.
C9_FailedRequestStep ==
    (ExtractStep /\ (~m_count_min_sketch_enabled \/ last'.index >= m_n_sketches)) =>
        /\ last'.ret = "false"
        /\ ~last'.has_value
        /\ m_lasterr' # ""
        /\ UNCHANGED << alive, config_vars, m_count_min_sketches, workers, lastevent_fd,
                        true_count, reset_clean >>

\* A request that passes the two guards is answered, whatever error string
\* an earlier request left behind (requests whose fingerprint computation
\* or sketch lookup throws aside)
C9_ValidRequestSucceeds ==
    (/\ last.op = "extract"
     /\ last.field \in SketchFields
     /\ m_count_min_sketch_enabled
     /\ last.index < m_n_sketches
     /\ last.ret \notin {"exception", "exit"})
    => (last.ret = "true" /\ last.has_value)

\* C9: an extract request for an indexed field with index >= N, or made
\* while the sketches are disabled, returns false with the last-error
\* string set, sets no value and changes no sketch counter nor anything
\* else a later request reads, so a later valid request is answered as if
\* the failing one had not been made.
C9_FailedExtractIsHarmless == []C9_ValidRequestSucceeds /\ [][C9_FailedRequestStep]_vars

\* A valid request answered with a count after an out-of-bounds one failed
C9_Witness ==
    /\ last.op = "extract"
    /\ last.field = ANOMALYDETECTION_COUNT_MIN_SKETCH_COUNT
    /\ last.ret = "true"
    /\ last.has_value
    /\ last.value >= 1
    /\ m_lasterr = "sketch index out of bounds"

\* C10: whenever the fingerprint computed for a request on
\* anomaly.count_min_sketch[i] is empty, the extracted value is 0 and no
\* error is reported, whatever updates sketch i has received.
C10_EmptyFingerprintIsZero ==
    (/\ last.op = "extract"
     /\ last.field = ANOMALYDETECTION_COUNT_MIN_SKETCH_COUNT
     /\ last.index < m_n_sketches
     /\ m_count_min_sketch_enabled
     /\ last.ret \in {"true", "false"}
     /\ last.str = EmptyStr)
    => (last.ret = "true" /\ last.has_value /\ last.value = 0)

\* The step just taken was an extract call, of any field
AnyExtractStep == last'.op = "extract"

\* What extract leaves alone
C11_ExtractStepFrame ==
    AnyExtractStep =>
        UNCHANGED << m_count_min_sketches, lastevent_fd, true_count, reset_clean >>

\* C11: extract is read-only with respect to the state it shares with
\* parse_event: no request, successful or failing, of any field and for any
\* event, changes a sketch counter or a thread's lastevent_fd.
C11_ExtractIsReadOnly == [][C11_ExtractStepFrame]_vars

\* An estimate answered from a bank with counts, with an fd recorded by an
\* earlier parse_event
C11_Witness ==
    /\ last.op = "extract"
    /\ last.field = ANOMALYDETECTION_COUNT_MIN_SKETCH_COUNT
    /\ last.ret = "true"
    /\ last.value >= 1
    /\ last.evt.type = PPME_SYSCALL_OPENAT_2_X
    /\ lastevent_fd[2] = 3

\* ------------------------------------------------- init, step by step
\* init while the reset workers run: the calls init makes on the thread
\* manager and the bank after parse_init_config and the table binding, in
\* the order of the code.  last.ret names the call init makes next.
\* Faulty variant: the workers are stopped after the new ones were started
InitOrder_StopLast == << "clear", "build", "launch", "stop_threads" >>

InitOrder == << "stop_threads", "clear", "build", "launch" >>

InInit == last.op = "init" /\ \E j \in 1..Len(InitOrder) : last.ret = InitOrder[j]

\* What init does after the call named ph: the next call, or return true
PhaseAfter(ph) ==
    LET j == CHOOSE x \in 1..Len(InitOrder) : InitOrder[x] = ph
    IN  IF j = Len(InitOrder) THEN "true" ELSE InitOrder[j + 1]

\* The configurations of the reloads: one and two sketches, with and
\* without a reset period, and the sketches disabled
ReloadConfigs ==
    {Regular(<< RowsColsB >>, << P_exe_periodic >>),
     Regular(<< RowsColsB, RowsColsA >>, << P_exe_periodic, P_fdnum >>),
     Regular(<< RowsColsA, RowsColsB >>, << P_name_short, P_exe_periodic >>),
     MkConfig(TRUE, FALSE, TRUE, 1, << >>, << RowsColsA >>, << P_exe >>)}

\* parse_init_config and the table binding of a valid configuration
InitBegin(pool) ==
    /\ alive
    /\ ~InInit
    /\ host_table \in {"unknown", "ok"}
    /\ \E cfg \in pool :
       \E p \in {parse_init_config(m_count_min_sketch_enabled, m_n_sketches, cfg)} :
           /\ ~p.exits /\ ~p.asserts
           /\ m_count_min_sketch_enabled' = p.enabled
           /\ m_n_sketches' = p.n_sketches
           /\ m_gamma_eps' = p.gamma_eps
           /\ m_rows_cols' = p.rows_cols
           /\ m_reset_timers' = p.reset_timers
           /\ m_behavior_profiles_fields' = p.fields
           /\ m_behavior_profiles_event_codes' = p.codes
           /\ last' = MkLast("init", NoEvt, "none", 0, cfg, InitOrder[1], FALSE, 0, EmptyStr)
    /\ host_table' = "ok"
    /\ UNCHANGED << walk, env_iter, go_worker,
                    alive, build, m_count_min_sketches, workers, m_lasterr, lastevent_fd,
                    true_count, reset_clean, nparsed, nexec_sh >>

\* m_thread_manager.stop_threads(): returns when every worker has exited
InitStopThreads ==
    /\ alive
    /\ last.op = "init" /\ last.ret = "stop_threads"
    /\ workers' = {}
    /\ last' = [last EXCEPT !.ret = PhaseAfter("stop_threads")]
    /\ UNCHANGED << walk, env_iter, go_worker,
                    alive, env_vars, config_vars, m_count_min_sketches, m_lasterr,
                    lastevent_fd, true_count, reset_clean, nparsed, nexec_sh >>

\* m_count_min_sketches.lock()->clear()
InitClear ==
    /\ alive
    /\ last.op = "init" /\ last.ret = "clear"
    /\ m_count_min_sketches' = << >>
    /\ true_count' = << >>
    /\ reset_clean' = << >>
    /\ last' = [last EXCEPT !.ret = PhaseAfter("clear")]
    /\ UNCHANGED << walk, env_iter, go_worker,
                    alive, env_vars, config_vars, workers, m_lasterr, lastevent_fd,
                    nparsed, nexec_sh >>

\* The loop that builds the sketches; return false when no array fits
InitBuild ==
    /\ alive
    /\ last.op = "init" /\ last.ret = "build"
    /\ LET n == m_n_sketches
           shaped == UsesRowsCols(n, m_gamma_eps, m_rows_cols)
                     \/ UsesGammaEps(n, m_gamma_eps, m_rows_cols)
           built == m_count_min_sketch_enabled /\ shaped
       IN  /\ m_count_min_sketches' =
                 m_count_min_sketches
                 \o (IF built THEN BuildBank(n, m_gamma_eps, m_rows_cols) ELSE << >>)
           /\ true_count' = true_count \o (IF built THEN [i \in 1..n |-> EmptyBag] ELSE << >>)
           /\ reset_clean' = reset_clean \o (IF built THEN [i \in 1..n |-> FALSE] ELSE << >>)
           /\ last' = [last EXCEPT !.ret = IF m_count_min_sketch_enabled /\ ~shaped
                                           THEN "false" ELSE PhaseAfter("build")]
    /\ UNCHANGED << walk, env_iter, go_worker,
                    alive, env_vars, config_vars, workers, m_lasterr, lastevent_fd,
                    nparsed, nexec_sh >>

\* The loop that starts the workers, then return true
InitLaunch ==
    /\ alive
    /\ last.op = "init" /\ last.ret = "launch"
    /\ workers' = workers \cup (IF m_count_min_sketch_enabled
                                THEN LaunchWorkers(m_n_sketches, m_reset_timers, 0)
                                ELSE {})
    /\ nparsed' = 0
    /\ nexec_sh' = 0
    /\ last' = [last EXCEPT !.ret = PhaseAfter("launch")]
    /\ UNCHANGED << walk, env_iter, go_worker,
                    alive, env_vars, config_vars, m_count_min_sketches, m_lasterr,
                    lastevent_fd, true_count, reset_clean >>

\* Reloads, events between them, and the workers' turns at any moment
NextReload ==
    \/ InitBegin(ReloadConfigs)
    \/ InitStopThreads
    \/ InitClear
    \/ InitBuild
    \/ InitLaunch
    \/ \E evt \in CfgEvents : ~InInit /\ ParseEvent(evt, MaxEventsCfg)
    \/ \E w \in workers : ResetWorker(w)

SpecReload == Init /\ [][NextReload]_vars

\* No worker runs while init creates the sketches and starts the workers
C12_WorkersDrained ==
    (last.op = "init" /\ last.ret \in {"build", "launch"}) => workers = {}

\* The bank and the workers when init has returned true
C12_NewBank ==
    (last.op = "init" /\ last.ret = "true" /\ m_count_min_sketch_enabled) =>
        /\ Len(m_count_min_sketches) = last.cfg.n_sketches
        /\ \A i \in 1..Len(m_count_min_sketches) :
              m_count_min_sketches[i] =
                  NewSketch(m_count_min_sketches[i].d, m_count_min_sketches[i].w)
        /\ workers = LaunchWorkers(m_n_sketches, m_reset_timers, 0)
        /\ \A w \in workers : w.id < last.cfg.n_sketches

\* C12: when init is called again with a different N, every reset worker
\* of the earlier init has exited before a new sketch is created or a new
\* worker is started, and once init has returned true the bank holds exactly
\* the new N sketches, all with zero counters.
C12_HotReloadDrainsWorkers == C12_WorkersDrained /\ C12_NewBank

\* A reload from two sketches (one of them periodic, counts in the bank) to
\* one sketch: stop_threads has returned, the old bank is not yet cleared
C12_Witness ==
    /\ last.op = "init"
    /\ last.ret = "clear"
    /\ last.cfg = Regular(<< RowsColsB >>, << P_exe_periodic >>)
    /\ Len(m_count_min_sketches) = 2
    /\ \E j \in 1..2 : true_count[j] # EmptyBag
    /\ workers = {}

\* The sketches that have a profile, and whether a worker runs for one
ProfiledSketches(nprofiles) ==
    {i \in 1..Len(m_count_min_sketches) : i <= nprofiles}

HasWorker(i) == \E w \in workers : w.id = i - 1

\* When init has returned true: the period stored for each profile and the
\* workers started, against the configured reset_timer_ms
C13_AtInit ==
    (last.op = "init" /\ last.ret = "true" /\ m_count_min_sketch_enabled) =>
        \A i \in ProfiledSketches(Len(last.cfg.behavior_profiles)) :
            LET profile == last.cfg.behavior_profiles[i]
                above == profile.has_reset_timer_ms /\ profile.reset_timer_ms > 100
            IN  /\ m_reset_timers[i] = IF above THEN profile.reset_timer_ms ELSE 0
                /\ HasWorker(i) <=> above

\* At any time: a worker runs for a sketch exactly when its stored period
\* is above 100
C13_WorkerIffPeriod ==
    \A i \in ProfiledSketches(Len(m_reset_timers)) :
        /\ HasWorker(i) <=> m_reset_timers[i] > 100
        /\ m_reset_timers[i] = 0 \/ m_reset_timers[i] > 100

\* Only a sketch with a stored period above 100 is reset by a worker
C13_ResetStep ==
    \A id \in 0..2 :
        (ResetStep(id) /\ id + 1 <= Len(m_reset_timers)) => m_reset_timers[id + 1] > 100

\* C13: a sketch has a reset worker if and only if its configured
\* reset_timer_ms is greater than 100; for a profile with reset_timer_ms
\* absent or <= 100 the stored period is 0 and no worker ever resets its
\* sketch.
C13_PeriodicIffAbove100 ==
    [](C13_AtInit /\ C13_WorkerIffPeriod) /\ [][C13_ResetStep]_vars

\* Two sketches, periods 200 and 100: the first has just been reset by its
\* worker after an update, the second has no worker and keeps its counts
C13_Witness ==
    /\ last.op = "reset"
    /\ last.index = 0
    /\ m_reset_timers = << 200, 0 >>
    /\ workers = {[id |-> 0, interval_ms |-> 200]}
    /\ Len(m_count_min_sketches) = 2
    /\ reset_clean[1]
    /\ true_count[2] # EmptyBag


\* ------------------------------------------------------------------ C14
\* parse_event came back to the host with a return value (it did not throw)
ParseReturned == last'.ret \in {"true", "false"}

\* The thread of the event is in the table and its lastevent_fd is the fd
C14_FdRecorded ==
    /\ HasEntry(last'.evt.tid)
    /\ lastevent_fd'[last'.evt.tid] = last'.evt.fd

\* The statement without its precondition: every fd-producing event that
\* parse_event returned from has its fd in lastevent_fd.  parse_event
\* returns true at once while count_min_sketch is disabled, recording nothing.
C14_FdRecordedForEveryEvent ==
    [][(ParseStep /\ ProducesFd(last'.evt) /\ ParseReturned) => C14_FdRecorded]_vars

\* C14: while count_min_sketch is enabled, once parse_event has returned from
\* an fd-producing event, lastevent_fd of the originating thread equals the
\* fd carried by that event, and no other thread's lastevent_fd changed.
C14_FdRecordedWhenEnabled ==
    [][(ParseStep /\ m_count_min_sketch_enabled /\ ProducesFd(last'.evt) /\ ParseReturned)
          => /\ C14_FdRecorded
             /\ \A t \in TableTids \ {last'.evt.tid} :
                    lastevent_fd'[t] = lastevent_fd[t]]_vars

\* A connect of thread 2 on fd 5 was parsed after its openat on fd 3
C14_Witness ==
    /\ last.op = "parse"
    /\ last.ret = "true"
    /\ last.evt = MkEvt(PPME_SOCKET_CONNECT_X, 2, 5)
    /\ m_count_min_sketch_enabled
    /\ nparsed = 2
    /\ lastevent_fd[2] = 5


\* ------------------------------------------------------------------ C15
\* C15: for an event whose thread id is <= 0 parse_event skips the event:
\* it comes back to the host without having looked up a thread entry (a
\* failed lookup throws out of parse_event), and it leaves lastevent_fd and
\* every sketch as they were, whatever the event type.
C15_NonPositiveTidSkipped ==
    [][(ParseStep /\ last'.evt.tid <= 0)
          => /\ ParseReturned
             /\ UNCHANGED << lastevent_fd, m_count_min_sketches, true_count,
                             reset_clean >>]_vars


\* ------------------------------------------------------------------ C16
\* An openat whose thread is not in the thread table, with a positive
\* thread id, while count_min_sketch is enabled and some profile lists openat
AbsentThreadOpenat(evt) ==
    /\ evt.type = PPME_SYSCALL_OPENAT_2_X
    /\ evt.tid > 0
    /\ ~HasEntry(evt.tid)
    /\ m_count_min_sketch_enabled
    /\ \E i \in 1..Len(m_behavior_profiles_event_codes) :
           ProfileApplies(evt, m_behavior_profiles_event_codes[i])

\* C16: parse_event on an openat of a thread that is absent from the table
\* raises no error: it returns true, and every sketch whose profile lists
\* openat and whose fingerprint from the raw parameters is not empty has
\* that fingerprint counted once more.
C16_AbsentThreadOpenatFallsBack ==
    [][(ParseStep /\ AbsentThreadOpenat(last'.evt))
          => /\ last'.ret = "true"
             /\ \A i \in 1..Len(m_count_min_sketches) :
                    LET fp == FallbackLoop(last'.evt, m_behavior_profiles_fields[i],
                                           EmptyStr)
                    IN  (/\ i <= Len(m_behavior_profiles_event_codes)
                         /\ ProfileApplies(last'.evt, m_behavior_profiles_event_codes[i])
                         /\ fp # EmptyStr)
                            => true_count'[i] = BagAdd(true_count[i], fp)]_vars


\* ------------------------------------------------------------------ C17
\* The fingerprint the profile would have if a selector whose evaluation
\* throws contributed the empty string and the loop went on
RECURSIVE C17_CaughtConcat(_, _, _, _)
C17_CaughtConcat(evt, fields, lfd, out) ==
    IF fields = << >> THEN out
    ELSE LET r == FieldValue(evt, Head(fields), lfd)
         IN  C17_CaughtConcat(evt, Tail(fields), lfd,
                              (IF r.k = "clear" THEN EmptyStr ELSE out)
                                  \o (IF r.k = "throw" THEN EmptyStr ELSE r.v))

\* parse_event of a thread of the table completes with true, and every
\* sketch whose profile lists the event type counted the fingerprint in
\* which a failing selector is empty
C17_ParseCompletes ==
    (ParseStep /\ m_count_min_sketch_enabled /\ HasEntry(last'.evt.tid))
        => /\ last'.ret = "true"
           /\ \A i \in 1..Len(m_count_min_sketches) :
                  LET fp == C17_CaughtConcat(last'.evt, m_behavior_profiles_fields[i],
                                             lastevent_fd', EmptyStr)
                  IN  (/\ i <= Len(m_behavior_profiles_event_codes)
                       /\ ProfileApplies(last'.evt, m_behavior_profiles_event_codes[i])
                       /\ fp # EmptyStr)
                          => true_count'[i] = BagAdd(true_count[i], fp)

\* extract of a sketch field with a valid index on a thread of the table
\* completes with true
C17_ExtractCompletes ==
    (/\ ExtractStep
     /\ m_count_min_sketch_enabled
     /\ HasEntry(last'.evt.tid)
     /\ last'.index < m_n_sketches
     /\ last'.index < Len(m_behavior_profiles_fields)
     /\ last'.index < Len(m_count_min_sketches))
        => last'.ret = "true"

\* C17: when evaluating one selector of a profile fails (the parent of the
\* thread is not in the table for %proc.pname), that selector contributes
\* the empty string, the other selectors and profiles still contribute, and
\* the enclosing parse_event or extract call completes normally.
C17_FailingSelectorContributesEmpty ==
    [][C17_ParseCompletes /\ C17_ExtractCompletes]_vars


\* ------------------------------------------- parent-chain walks, stepwise
\* extract_filterchecks_concat_profile with a one-selector profile on a
\* thread of the table, one loop iteration per step.
WalkOthersUnchanged ==
    UNCHANGED << alive, env_vars, config_vars, m_count_min_sketches, workers, m_lasterr,
                 lastevent_fd, true_count, reset_clean, nparsed, nexec_sh, last,
                 env_iter, go_worker >>

\* From the case label to the for loop: the [0] short cut, or the reads of
\* the current thread that precede the loop
WalkEnter ==
    /\ walk.pc = "call"
    /\ LET f == walk.field
           ptid0 == walk.table.ptid[walk.tid]
       IN  walk' =
             IF f.id \in AncestorIds
             THEN IF f.argid < 1
                  THEN [walk EXCEPT !.pc = "done", !.tstr = ReadAttr(f.id, walk.tid)]
                  ELSE [walk EXCEPT !.pc = "loop", !.ptid = ptid0]
             ELSE IF f.id \in LineageIds
             THEN IF f.argid < 1
                  THEN [walk EXCEPT !.pc = "done"]
                  ELSE [walk EXCEPT !.pc = "loop", !.ptid = ptid0,
                                    !.tstr = ReadAttr(f.id, walk.tid)]
             ELSE [walk EXCEPT !.pc = "loop", !.ptid = ptid0, !.leader = walk.tid]
    /\ WalkOthersUnchanged

\* Faulty variant: the ancestor's value replaces what was gathered
LineageAppend_Overwrite(tstr, tstr2) == tstr2

\* tstr += tstr2 of the lineage concatenations
LineageAppend(tstr, tstr2) == tstr \o tstr2

\* The body of the for loop once: get_entry(ptid) inside the try, whose
\* exception the empty catch swallows before j++
WalkBody(w) ==
    LET f == w.field
        looked == [w EXCEPT !.lookups = @ + 1]
    IN  IF ~WalkHasEntry(w.table, w.ptid)
        THEN [looked EXCEPT !.j = @ + 1]
        ELSE IF f.id \in AncestorIds
        THEN IF w.j = f.argid - 1
             THEN [looked EXCEPT !.pc = "after", !.tstr = ReadAttr(f.id, w.ptid)]
             ELSE IF StopsAtInit(w.ptid)
             THEN [looked EXCEPT !.pc = "after"]
             ELSE [looked EXCEPT !.ptid = w.table.ptid[w.ptid], !.j = @ + 1]
        ELSE IF f.id \in LineageIds
        THEN LET read == [looked EXCEPT !.tstr = LineageAppend(@, ReadAttr(f.id, w.ptid))]
             IN  IF w.j = f.argid - 1 \/ StopsAtInit(w.ptid)
                 THEN [read EXCEPT !.pc = "after"]
                 ELSE [read EXCEPT !.ptid = w.table.ptid[w.ptid], !.j = @ + 1]
        ELSE IF GroupOf(w.table, f.id, w.tid) # GroupOf(w.table, f.id, w.ptid)
             THEN [looked EXCEPT !.pc = "after"]
             ELSE [looked EXCEPT !.ptid = w.table.ptid[w.ptid], !.leader = w.ptid,
                                 !.j = @ + 1]

\* The loop test, then the body
WalkIter ==
    /\ walk.pc = "loop"
    /\ walk' = IF LoopContinues(walk.j, HopCap(walk.field))
               THEN WalkBody(walk)
               ELSE [walk EXCEPT !.pc = "after"]
    /\ WalkOthersUnchanged

\* After the loop: the leader selectors read the attribute of the leader;
\* break
WalkLeave ==
    /\ walk.pc = "after"
    /\ walk' = IF walk.field.id \in SidIds \cup VpgidIds
               THEN [walk EXCEPT !.pc = "done",
                                 !.tstr = ReadAttr(walk.field.id, walk.leader)]
               ELSE [walk EXCEPT !.pc = "done"]
    /\ WalkOthersUnchanged

InitWalk ==
    /\ alive = TRUE
    /\ build = "unknown"
    /\ host_table = "ok"
    /\ m_count_min_sketch_enabled = FALSE
    /\ m_n_sketches = 0
    /\ m_gamma_eps = << >>
    /\ m_rows_cols = << >>
    /\ m_reset_timers = << >>
    /\ m_behavior_profiles_fields = << >>
    /\ m_behavior_profiles_event_codes = << >>
    /\ m_count_min_sketches = << >>
    /\ workers = {}
    /\ m_lasterr = ""
    /\ lastevent_fd = [t \in TableTids |-> 0]
    /\ true_count = << >>
    /\ reset_clean = << >>
    /\ nparsed = 0
    /\ nexec_sh = 0
    /\ last = MkLast("none", NoEvt, "none", 0, NoConfig, "none", FALSE, 0, EmptyStr)
    /\ walk \in WalkCalls
    /\ env_iter = EnvIdle
    /\ go_worker = GoIdle

NextWalk == WalkEnter \/ WalkIter \/ WalkLeave

SpecWalk == InitWalk /\ [][NextWalk]_vars

\* A call that was entered runs on: nothing suspends the loop
SpecWalkFair == SpecWalk /\ WF_vars(NextWalk)


\* ------------------------------------------------------------------ C18
\* The evaluation of the selector has returned
WalkDone == walk.pc = "done"

\* C18: every ancestry selector X[k] (APID, ANAME, AEXE, AEXEPATH, ACMDLINE
\* and the custom lineage concatenations) with k = 0 yields the value of the
\* current thread.
C18_ZeroYieldsCurrentThread ==
    (/\ WalkDone
     /\ walk.field.id \in AncestorIds \cup LineageIds
     /\ walk.field.argid = 0)
        => walk.tstr = ReadAttr(walk.field.id, walk.tid)


\* ------------------------------------------------------------------ C19
\* The thread reached from t by following ptid i times; 0 once a thread on
\* the way is not in the table
RECURSIVE Ancestor(_, _, _)
Ancestor(tb, t, i) ==
    IF i = 0 THEN t
    ELSE LET a == Ancestor(tb, t, i - 1)
         IN  IF WalkHasEntry(tb, a) THEN tb.ptid[a] ELSE 0

\* What an ancestor selector with k >= 1 is to yield
C19_Expected(tb, t, id, k) ==
    IF \E i \in 1..k : ~WalkHasEntry(tb, Ancestor(tb, t, i)) THEN EmptyStr
    ELSE IF \E i \in 1..(k - 1) : Ancestor(tb, t, i) = 1 THEN EmptyStr
    ELSE ReadAttr(id, Ancestor(tb, t, k))

\* C19: for ANAME, AEXE, AEXEPATH, APID and ACMDLINE with k >= 1 the result
\* is the requested attribute of the thread reached by following ptid
\* exactly k times from the current thread; it is the empty string when tid
\* 1 is reached as the parent before the k-th hop or when an ancestor on
\* the way is not in the table.
C19_KthAncestorOrEmpty ==
    (WalkDone /\ walk.field.id \in AncestorIds /\ walk.field.argid >= 1)
        => walk.tstr = C19_Expected(walk.table, walk.tid, walk.field.id, walk.field.argid)

\* Thread 3 is asked for the command line of its grandparent through the
\* cycle 3 -> 2 -> 3 -> 2
C19_Witness ==
    /\ WalkDone
    /\ walk.field = MkWalkField("TYPE_ACMDLINE", 3)
    /\ walk.tid = 3
    /\ walk.table.ptid = << 0, 3, 2 >>
    /\ walk.tstr = << "sh", " ", "-c", " ", "ls" >>
    /\ walk.lookups = 3

\* Thread 3 is asked for aname[3] on the chain 3 -> 2 -> 1: tid 1 is met as
\* the parent at the second hop and the result is empty
C19_WitnessEarlyStop ==
    /\ WalkDone
    /\ walk.field = MkWalkField("TYPE_ANAME", 3)
    /\ walk.tid = 3
    /\ walk.table.ptid = << 2, 1, 2 >>
    /\ walk.tstr = EmptyStr
    /\ walk.lookups = 2


\* ------------------------------------------------------------------ C20
\* The walk never makes more thread-table lookups than its hop cap, and the
\* loop counter never passes the cap
C20_LookupsWithinCap ==
    walk.pc # "idle" =>
        /\ walk.lookups <= HopCap(walk.field)
        /\ walk.j <= HopCap(walk.field)
        /\ walk.lookups <= walk.j + 1

\* C20: every parent-chain walk terminates after at most its hop cap of
\* thread-table lookups (k for the ancestor and lineage selectors, 9 for
\* the session leader selectors, 5 for the process group leader
\* selectors), whatever the table holds: a ptid cycle, a self-parented
\* thread or absent ancestors.
C20_WalkTerminatesWithinCap == []C20_LookupsWithinCap /\ <>WalkDone

\* A session leader walk on a self-parented thread used all of its 9 lookups
C20_Witness ==
    /\ WalkDone
    /\ walk.field.id = "TYPE_SNAME"
    /\ walk.tid = 2
    /\ walk.table.ptid[2] = 2
    /\ walk.lookups = SidHops
    /\ walk.tstr = << "sh" >>


\* ------------------------------------------------------------------ C21
\* The values of thread t and of its ancestors 1 to k, in that order
RECURSIVE LineageValues(_, _, _, _)
LineageValues(tb, t, id, k) ==
    IF k = 0 THEN ReadAttr(id, t)
    ELSE LineageValues(tb, t, id, k - 1) \o ReadAttr(id, Ancestor(tb, t, k))

\* Thread t has at least k ancestors in the table
HasAncestors(tb, t, k) == \A i \in 1..k : WalkHasEntry(tb, Ancestor(tb, t, i))

\* tid 1 is not among the first k - 1 ancestors of t
InitNotBefore(tb, t, k) == \A i \in 1..(k - 1) : Ancestor(tb, t, i) # 1

\* A lineage concatenation with k >= 1 has returned
C21_LineageDone == WalkDone /\ walk.field.id \in LineageIds /\ walk.field.argid >= 1

EnvOthersUnchanged ==
    UNCHANGED << alive, env_vars, config_vars, m_count_min_sketches, workers, m_lasterr,
                 lastevent_fd, true_count, reset_clean, nparsed, nexec_sh, last, walk,
                 go_worker >>

\* case TYPE_ENV: get_subtable, then iterate_entries
EnvEnter ==
    /\ env_iter.pc = "call"
    /\ env_iter' = [env_iter EXCEPT !.pc = "iterate"]
    /\ EnvOthersUnchanged

\* One call of the lambda, on the next entry of the subtable
EnvEntry ==
    /\ env_iter.pc = "iterate"
    /\ env_iter.i <= Len(env_iter.env)
    /\ env_iter' = IF env_iter.argname # EmptyStr
                   THEN EnvNamedEntry(env_iter, env_iter.env[env_iter.i])
                   ELSE EnvJoinEntry(env_iter, env_iter.env[env_iter.i])
    /\ EnvOthersUnchanged

\* The subtable is exhausted: break, and tstr is appended to the fingerprint
EnvLeave ==
    /\ env_iter.pc = "iterate"
    /\ env_iter.i > Len(env_iter.env)
    /\ env_iter' = [env_iter EXCEPT !.pc = "done"]
    /\ EnvOthersUnchanged

InitEnv ==
    /\ alive = TRUE
    /\ build = "unknown"
    /\ host_table = "ok"
    /\ m_count_min_sketch_enabled = FALSE
    /\ m_n_sketches = 0
    /\ m_gamma_eps = << >>
    /\ m_rows_cols = << >>
    /\ m_reset_timers = << >>
    /\ m_behavior_profiles_fields = << >>
    /\ m_behavior_profiles_event_codes = << >>
    /\ m_count_min_sketches = << >>
    /\ workers = {}
    /\ m_lasterr = ""
    /\ lastevent_fd = [t \in TableTids |-> 0]
    /\ true_count = << >>
    /\ reset_clean = << >>
    /\ nparsed = 0
    /\ nexec_sh = 0
    /\ last = MkLast("none", NoEvt, "none", 0, NoConfig, "none", FALSE, 0, EmptyStr)
    /\ walk = WalkIdle
    /\ env_iter \in EnvCalls
    /\ go_worker = GoIdle

NextEnv == EnvEnter \/ EnvEntry \/ EnvLeave

SpecEnv == InitEnv /\ [][NextEnv]_vars

\* ------------------------------------------------------------------ C22
\* The positions of the entries of env that have the form KEY=VALUE for
\* the given KEY
EnvMatchingAt(env, argname) ==
    {i \in 1..Len(env) : EnvMatches(EnvVar(env[i]), argname)}

\* C22: for %proc.env[KEY] on a thread whose env table holds several
\* entries KEY=VALUE with the same KEY, the value of the selector is the
\* trimmed VALUE of the first such entry in iteration order.
C22_FirstMatchWins ==
    (/\ env_iter.pc = "done"
     /\ env_iter.argname # EmptyStr
     /\ Cardinality(EnvMatchingAt(env_iter.env, env_iter.argname)) >= 2)
        => LET first == CHOOSE i \in EnvMatchingAt(env_iter.env, env_iter.argname) :
                            \A h \in EnvMatchingAt(env_iter.env, env_iter.argname) : i <= h
           IN  env_iter.tstr = EnvTrim(EnvVar(env_iter.env[first]), env_iter.argname).str


\* ------------------------------------------------------------------ C23
\* The directory an openat with an empty cached name is to be resolved
\* against: the cwd of the thread for PPM_AT_FDCWD, else the name of the
\* dirfd entry of the thread's fd table
C23_BaseDir(evt) ==
    IF evt.dirfd = PPM_AT_FDCWD THEN ThreadTable[evt.tid].cwd
    ELSE IF evt.dirfd \in DOMAIN ThreadTable[evt.tid].fds
    THEN ThreadTable[evt.tid].fds[evt.dirfd]
    ELSE EmptyStr

\* The fingerprint of fields in which %fd.name is the name of the event
\* joined onto that directory
RECURSIVE C23_Concat(_, _, _, _)
C23_Concat(evt, fields, lfd, out) ==
    IF fields = << >> THEN out
    ELSE LET r == FieldValue(evt, Head(fields), lfd)
             v == IF Head(fields).id = "TYPE_FDNAME"
                  THEN concatenate_paths(C23_BaseDir(evt), evt.name)
                  ELSE r.v
         IN  C23_Concat(evt, Tail(fields), lfd,
                        (IF r.k = "clear" THEN EmptyStr ELSE out) \o v)

\* An openat of a thread of the table whose fd has no cached name
C23_UncachedOpenat(evt, lfd) ==
    /\ evt.type = PPME_SYSCALL_OPENAT_2_X
    /\ HasEntry(evt.tid)
    /\ CachedFdName(evt.tid, lfd) = EmptyStr

\* C23: for an openat whose cached fd name is empty, %fd.name resolves a
\* relative name against the cwd of the thread when dirfd is PPM_AT_FDCWD
\* and against the name of the dirfd entry otherwise: every sketch whose
\* profile lists openat counts the fingerprint built that way.
C23_OpenatResolvedAgainstDir ==
    [][(/\ ParseStep
        /\ m_count_min_sketch_enabled
        /\ last'.ret = "true"
        /\ C23_UncachedOpenat(last'.evt, lastevent_fd'))
          => \A i \in 1..Len(m_count_min_sketches) :
                 LET fp == C23_Concat(last'.evt, m_behavior_profiles_fields[i],
                                      lastevent_fd', EmptyStr)
                 IN  (/\ i <= Len(m_behavior_profiles_event_codes)
                      /\ ProfileApplies(last'.evt, m_behavior_profiles_event_codes[i])
                      /\ fp # EmptyStr)
                         => true_count'[i] = BagAdd(true_count[i], fp)]_vars


\* ------------------------------------------------------------------ C24
\* extract is called for the event that parse_event has just returned from
C24_ExtractAfterItsParse ==
    /\ last.op = "parse"
    /\ last.ret \in {"true", "false"}
    /\ ProducesFd(last.evt)
    /\ HasEntry(last.evt.tid)
    /\ ExtractStep
    /\ last'.evt = last.evt
    /\ last'.ret = "true"

\* The fingerprint of sketch index for evt when lastevent_fd of its thread
\* holds the fd the event carries
C24_FingerprintWithItsFd(evt, index) ==
    extract_filterchecks_concat_profile(
        evt, FieldsAt(index), [lastevent_fd EXCEPT ![evt.tid] = evt.fd]).str

\* C24: for an fd-producing event e of a thread of the table, when
\* parse_event(e) has run before extract(e) with no other event of the
\* thread parsed in between, the fingerprint extract works on is built with
\* the fd carried by e: %fd.num is that fd and the fd-table lookups of the
\* other fd selectors use it.
C24_ExtractSeesFdOfItsEvent ==
    [][C24_ExtractAfterItsParse
          => /\ lastevent_fd[last.evt.tid] = last.evt.fd
             /\ (last'.field = ANOMALYDETECTION_COUNT_MIN_SKETCH_BEHAVIOR_PROFILE_CONCAT_STR
                    => last'.str = C24_FingerprintWithItsFd(last'.evt, last'.index))]_vars

\* %fd.num of the openat on fd 3 of thread 2 was extracted after its parse
C24_Witness ==
    /\ last.op = "extract"
    /\ last.field = ANOMALYDETECTION_COUNT_MIN_SKETCH_BEHAVIOR_PROFILE_CONCAT_STR
    /\ last.ret = "true"
    /\ last.evt = MkEvt(PPME_SYSCALL_OPENAT_2_X, 2, 3)
    /\ last.index = 1
    /\ last.str = << "3" >>
    /\ nparsed >= 1
    /\ lastevent_fd[2] = 3


\* ------------------------------------------------------------------ C25
\* The init call just made found a required field missing from the host
\* thread table
C25_InitFoundFieldMissing ==
    last'.op = "init" /\ last' # last /\ host_table' = "missing" /\ last'.ret = "false"

\* C25: when the host thread table does not expose a required field, init
\* returns false with the last-error string set, creates no sketch, starts
\* no reset worker, and leaves the configuration the plugin had before the
\* call (enabled flag, N, profiles, sketches, workers) as it was.
C25_FailedInitKeepsConfiguration ==
    [][C25_InitFoundFieldMissing
          => /\ m_lasterr' # ""
             /\ UNCHANGED << config_vars, m_count_min_sketches, workers >>]_vars


\* ------------------------------------------------------------------ C26
\* C26: after any sequence of init calls, whatever each returned, whenever
\* count_min_sketch is enabled the bank holds m_n_sketches sketches and as
\* many profiles, event-code sets and reset timers are stored, so every
\* access sketch at(i), fields[i], reset timer [i] with i < m_n_sketches is
\* in range.
C26_BankMatchesConfiguration ==
    (alive /\ m_count_min_sketch_enabled)
        => /\ Len(m_count_min_sketches) = m_n_sketches
           /\ Len(m_behavior_profiles_fields) = m_n_sketches
           /\ Len(m_behavior_profiles_event_codes) = m_n_sketches
           /\ Len(m_reset_timers) = m_n_sketches


\* ------------------------------------------------------------------ C27
\* C27: after init has accepted a configuration no profile with an
\* fd-dependent selector, the shortcuts %custom.fdname_part1 and
\* %custom.fdname_part2 included, is paired with an event code outside the
\* fd-producing set, and so parse_event never evaluates an fd-dependent
\* selector on an event that produces no fd.
C27_FdProfilesOnFdCodesOnly ==
    /\ (alive /\ m_count_min_sketch_enabled /\ last.op = "init" /\ last.ret = "true")
          => \A i \in 1..Len(m_behavior_profiles_fields) :
                 (i <= Len(m_behavior_profiles_event_codes)
                  /\ HasFdField(m_behavior_profiles_fields[i]))
                     => m_behavior_profiles_event_codes[i] \subseteq supported_codes_fd_profile
    /\ (last.op = "parse" /\ last.ret = "true" /\ m_count_min_sketch_enabled)
          => \A i \in 1..Len(m_behavior_profiles_fields) :
                 (i <= Len(m_behavior_profiles_event_codes)
                  /\ ProfileApplies(last.evt, m_behavior_profiles_event_codes[i])
                  /\ HasFdField(m_behavior_profiles_fields[i]))
                     => last.evt.type \in supported_codes_fd_profile


\* ------------------------------------------------------------------ C28
\* An init call has just returned true or false
C28_InitReturned ==
    last'.op = "init" /\ last' # last /\ last'.ret \in {"true", "false"}

\* What a plugin instance that has seen no earlier configuration holds
\* after parse_init_config of cfg
C28_FreshInstance(cfg) == parse_init_config(FALSE, 0, cfg)

\* C28: the effective configuration after an init call is a function of
\* the config string of that call only: an instance that received other
\* configurations before ends with the same enabled flag and the same N as
\* an instance that received the latest configuration alone.
C28_InitDependsOnLatestConfigOnly ==
    [][C28_InitReturned
          => /\ m_count_min_sketch_enabled' = C28_FreshInstance(last'.cfg).enabled
             /\ m_n_sketches' = C28_FreshInstance(last'.cfg).n_sketches]_vars


\* ------------------------------------------------------------------ C29
\* C29: parse_event leaves every thread's lastevent_fd unchanged when the
\* event type is not fd-producing, and with count_min_sketch disabled it
\* returns true without writing lastevent_fd or touching any sketch, for
\* any event type.
C29_ParseFrame ==
    [][ParseStep
          => /\ ~ProducesFd(last'.evt) => lastevent_fd' = lastevent_fd
             /\ ~m_count_min_sketch_enabled
                   => /\ last'.ret = "true"
                      /\ lastevent_fd' = lastevent_fd
                      /\ m_count_min_sketches' = m_count_min_sketches
                      /\ true_count' = true_count]_vars

\* An enabled plugin parsed an event that produces no fd for a thread whose
\* recorded fd is still the one an earlier event wrote
C29_Witness ==
    /\ m_count_min_sketch_enabled
    /\ last.op = "parse"
    /\ ~ProducesFd(last.evt)
    /\ HasEntry(last.evt.tid)
    /\ lastevent_fd[last.evt.tid] = 3

\* A disabled plugin parsed an fd-producing event of a thread in the table
\* and the fd of that event is not the recorded one
C29_WitnessDisabled ==
    /\ ~m_count_min_sketch_enabled
    /\ last.op = "parse"
    /\ last.ret = "true"
    /\ ProducesFd(last.evt)
    /\ HasEntry(last.evt.tid)
    /\ lastevent_fd[last.evt.tid] # last.evt.fd


\* ---------------------------------------- container go-worker, step-wise
\* workerLoop one step at a time: a step of the environment (the context
\* is cancelled, a listener offers an event on its channel or closes it) or
\* one iteration of the for loop around reflect.Select.
GoOthersUnchanged ==
    UNCHANGED << alive, env_vars, config_vars, m_count_min_sketches, workers, m_lasterr,
                 lastevent_fd, true_count, reset_clean, nparsed, nexec_sh, last, walk,
                 env_iter >>

\* The channels of the listeners the loop selects on
GoListening(g) == {g.cases[i] : i \in 2..Len(g.cases)}

\* The caller cancels ctx: ctx.Done() is closed
GoCancel ==
    /\ go_worker.pc = "select"
    /\ ~go_worker.cancelled
    /\ go_worker' = [go_worker EXCEPT !.cancelled = TRUE]
    /\ GoOthersUnchanged

\* A listener offers one value on its channel
GoSend(ch) ==
    /\ go_worker.pc = "select"
    /\ ch \in GoListening(go_worker)
    /\ ~go_worker.chans[ch].closed
    /\ go_worker.chans[ch].buf = 0
    /\ go_worker.sent < MaxGoEvents
    /\ go_worker' = [go_worker EXCEPT !.chans[ch].buf = 1, !.sent = @ + 1]
    /\ GoOthersUnchanged

\* A listener goroutine ends and closes its channel
GoCloseChan(ch) ==
    /\ go_worker.pc = "select"
    /\ ch \in GoListening(go_worker)
    /\ ~go_worker.chans[ch].closed
    /\ go_worker.chans[ch].buf = 0
    /\ go_worker' = [go_worker EXCEPT !.chans[ch].closed = TRUE]
    /\ GoOthersUnchanged

\* chosen, val, _ := reflect.Select(cases) took the case at position pos:
\* the value is received if there is one, else the channel is closed and
\* val is the zero value.  recv_ok is the third result, which the code drops.
GoReceive(g, pos) ==
    LET ch == g.cases[pos]
    IN  IF ch = CtxDone THEN [g EXCEPT !.chosen = ch, !.recv_ok = FALSE]
        ELSE IF g.chans[ch].buf > 0
        THEN [g EXCEPT !.chosen = ch, !.recv_ok = TRUE, !.chans[ch].buf = 0]
        ELSE [g EXCEPT !.chosen = ch, !.recv_ok = FALSE, !.seen_closed = @ \cup {ch}]

\* evt, _ = val.Interface().(event.Event); cb(evt.String(), evt.IsCreate):
\* received counts the events that a listener sent
GoCallback(g) ==
    [g EXCEPT !.cb_calls = @ + 1, !.received = @ + (IF g.recv_ok THEN 1 ELSE 0)]

\* inotifier.Process gave an engine and engine.Listen gave its channel
GoProcessAppend(g, ch) == [g EXCEPT !.cases = AppendCase(@, ch)]

\* One iteration of the for loop with the case at position pos chosen
GoSelect(pos) ==
    /\ go_worker.pc = "select"
    /\ pos \in 1..Len(go_worker.cases)
    /\ CaseReady(go_worker, go_worker.cases[pos])
    /\ \E g \in {GoReceive(go_worker, pos)} :
          IF pos - 1 = ctxDoneIdx
          THEN go_worker' = [g EXCEPT !.pc = "returned"]
          ELSE IF go_worker.has_inotifier /\ pos - 1 = inotifierIdx
          THEN \/ go_worker' = g
               \/ \E ch \in EngineChans \ GoListening(g) :
                     go_worker' = GoProcessAppend(g, ch)
          ELSE /\ g.cb_calls < MaxGoCallbacks
               /\ go_worker' = GoCallback(g)
    /\ GoOthersUnchanged

InitGo ==
    /\ alive = TRUE
    /\ build = "unknown"
    /\ host_table = "ok"
    /\ m_count_min_sketch_enabled = FALSE
    /\ m_n_sketches = 0
    /\ m_gamma_eps = << >>
    /\ m_rows_cols = << >>
    /\ m_reset_timers = << >>
    /\ m_behavior_profiles_fields = << >>
    /\ m_behavior_profiles_event_codes = << >>
    /\ m_count_min_sketches = << >>
    /\ workers = {}
    /\ m_lasterr = ""
    /\ lastevent_fd = [t \in TableTids |-> 0]
    /\ true_count = << >>
    /\ reset_clean = << >>
    /\ nparsed = 0
    /\ nexec_sh = 0
    /\ last = MkLast("none", NoEvt, "none", 0, NoConfig, "none", FALSE, 0, EmptyStr)
    /\ walk = WalkIdle
    /\ env_iter = EnvIdle
    /\ go_worker \in GoCalls

NextGo ==
    \/ GoCancel
    \/ \E ch \in ListenerChans : GoSend(ch)
    \/ \E ch \in ListenerChans : GoCloseChan(ch)
    \/ \E pos \in 1..(1 + Cardinality(ListenerChans)) : GoSelect(pos)

SpecGo == InitGo /\ [][NextGo]_vars

\* reflect.Select picks among the ready cases at random: a case that stays
\* ready is eventually the one picked
SpecGoFair == SpecGo /\ WF_vars(GoSelect(ctxDoneIdx + 1))

\* ------------------------------------------------------------------ C30
\* An iteration of the for loop has just run and changed the state
C30_Iteration ==
    /\ go_worker.pc = "select"
    /\ go_worker' # go_worker
    /\ go_worker'.sent = go_worker.sent
    /\ go_worker'.cancelled = go_worker.cancelled
    /\ \A ch \in ListenerChans : go_worker'.chans[ch].closed = go_worker.chans[ch].closed

\* The loop is left through the ctx.Done case only, which stays first
C30_ReturnsThroughCtxDone ==
    /\ go_worker.pc \in {"select", "returned"} => go_worker.cases[ctxDoneIdx + 1] = CtxDone
    /\ go_worker.pc = "returned" => go_worker.cancelled /\ go_worker.chosen = CtxDone

\* Once the context is cancelled the loop returns
C30_ReturnsOnceCancelled ==
    (go_worker.pc = "select" /\ go_worker.cancelled) ~> (go_worker.pc = "returned")

\* The callback has been invoked once for every event received from an
\* engine listener and never otherwise
C30_CallbackOncePerEvent == go_worker.cb_calls = go_worker.received

\* The callback is not invoked after the loop has returned
C30_NoCallbackAfterReturn ==
    [][go_worker.pc = "returned" => go_worker'.cb_calls = go_worker.cb_calls]_vars

\* A listener channel found closed by one iteration is chosen by no later one
C30_ClosedNotSelectedAgain ==
    [][C30_Iteration => go_worker'.chosen \notin go_worker.seen_closed]_vars

====
